---- MODULE Spec2Model ----
(***************************************************************************)
(* Model of the special-bond extraction pipeline                           *)
(* (src/02_Local_Debt_Analysis/debt_cleaning_pipeline.py).                 *)
(*                                                                         *)
(* Cell text is a sequence of tokens.  A token is a whitespace run, a run  *)
(* of CJK characters, or a run of other characters; the Chinese labels of  *)
(* the source are written in ASCII here:                                   *)
(*   "ProjectName" = 项目名称   "ProjectUnit" = 项目单位                   *)
(*   "Department"  = 主管部门   "BondName"    = 债券名称                   *)
(*   "IssueSize"   = 发行规模   "TotalRevenue" = 债券存续期内项目总收益    *)
(*   "SpecialBond" "ProjectInfo" = 专项债券 项目信息 (the title pattern)   *)
(* Sheet indices are 0-based as in the source; sequences are 1-based, so   *)
(* sheet index k is element k + 1 of a sheet sequence.                     *)
(***************************************************************************)
EXTENDS Integers, Sequences, FiniteSets, TLC

\* ------------------------------------------------------------------ bounds
MaxFiles == 3
MaxNoteRows == 3
MaxRuns == 2
MaxGridRows == 3
MaxWalkFiles == 3
MaxDirLevels == 2
MaxWalkRows == 3
MaxTailRows == 10
MaxHistory == 22
MaxFileIds == 2

\* --------------------------------------------------------------- constants
SCAN_ROW_LIMIT == 3

\* ------------------------------------------------------------------ helpers
SetMin(S) == CHOOSE x \in S : \A y \in S : x <= y
SetMax(S) == CHOOSE x \in S : \A y \in S : x >= y
SeqsUpTo(S, n) == UNION {[1..k -> S] : k \in 0..n}
NonEmptySeqsUpTo(S, n) == UNION {[1..k -> S] : k \in 1..n}

\* ------------------------------------------------------------- cell values
None == [t |-> "none", s |-> <<>>]
Text(s) == [t |-> "text", s |-> s]
\* A Python int held in a dict (never a cell value here).
PyInt(n) == [t |-> "int", s |-> <<>>, n |-> n]
WhitespaceTokens == {" "}
ChineseTokens ==
    {"ProjectName", "ProjectUnit", "Department", "BondName", "IssueSize",
     "TotalRevenue", "SpecialBond", "ProjectInfo", "Jia", "Yi", "Bing"}

\* Python truthiness of a cell value (None and "" are falsy).
Truthy(v) == v.t # "none" /\ v.s # <<>>

clean_cell(v) ==
    IF v.t = "none" THEN <<>>
    ELSE SelectSeq(v.s, LAMBDA tok : tok \notin WhitespaceTokens)

clean_for_matching(v) ==
    IF v.t = "none" THEN <<>>
    ELSE SelectSeq(v.s, LAMBDA tok : tok \in ChineseTokens)

\* compiled_regex.search for PATTERN_TO_FIND: the optional year and the up to
\* three free characters match the empty string, so the search succeeds exactly
\* when the text holds the literal 专项债券项目信息 ("SpecialBond" directly
\* followed by "ProjectInfo").
regex_search(text) ==
    \E k \in 1..(Len(text) - 1) :
        text[k] = "SpecialBond" /\ text[k + 1] = "ProjectInfo"

\* ------------------------------------------------------------------ sheets
Cell(v, b) == [value |-> v, border |-> b]
EmptyCell == Cell(None, FALSE)

has_border(cell) == cell.border

\* sheet.cell(row, column): a cell outside the stored grid is a fresh empty one.
sheet_cell(sheet, r, c) ==
    IF r \in 1..sheet.max_row /\ c \in 1..sheet.max_column
    THEN sheet.cells[r][c] ELSE EmptyCell

MergeRange(r1, r2, c1, c2) ==
    [min_row |-> r1, max_row |-> r2, min_col |-> c1, max_col |-> c2]

ColLetters == <<"A", "B", "C", "D", "E", "F", "G", "H">>
get_column_letter(c) == ColLetters[c]
column_index_from_string(l) == CHOOSE c \in 1..Len(ColLetters) : ColLetters[c] = l

\* A range string "A1:C3" as its four parts.
RangeStr(min_col, min_row, max_col, max_row) ==
    [c1 |-> get_column_letter(min_col), r1 |-> min_row,
     c2 |-> get_column_letter(max_col), r2 |-> max_row]
NoRange == [c1 |-> "", r1 |-> 0, c2 |-> "", r2 |-> 0]

range_boundaries(rs) ==
    [min_col |-> column_index_from_string(rs.c1), min_row |-> rs.r1,
     max_col |-> column_index_from_string(rs.c2), max_row |-> rs.r2]

BorderedCells(sheet) ==
    {rc \in (1..sheet.max_row) \X (1..sheet.max_column) :
        has_border(sheet.cells[rc[1]][rc[2]])}

find_border_range_in_sheet(sheet) ==
    LET B == BorderedCells(sheet) IN
    IF B = {} THEN NoRange
    ELSE RangeStr(SetMin({rc[2] : rc \in B}), SetMin({rc[1] : rc \in B}),
                  SetMax({rc[2] : rc \in B}), SetMax({rc[1] : rc \in B}))

are_tables_similar_WidthOrWider(range1, range2) ==
    LET b1 == range_boundaries(range1)
        b2 == range_boundaries(range2)
    IN  (b1.max_col - b1.min_col + 1) <= (b2.max_col - b2.min_col + 1)

are_tables_similar(range1, range2) ==
    LET b1 == range_boundaries(range1)
        b2 == range_boundaries(range2)
    IN  (b1.max_col - b1.min_col + 1) = (b2.max_col - b2.min_col + 1)

\* ---------------------------------------------------- table consolidation
\* Lines 270-278: the sheets whose first scan_row_limit rows (all rows when the
\* limit is not positive) hold a cell matching the title pattern.
SheetMatchesTitle(sheet, scan_row_limit) ==
    LET last == IF scan_row_limit > 0 THEN scan_row_limit ELSE sheet.max_row IN
    \E r \in 1..last, c \in 1..sheet.max_column :
        LET v == sheet_cell(sheet, r, c).value
        IN  Truthy(v) /\ regex_search(clean_cell(v))

RECURSIVE MatchedFrom(_, _, _)
MatchedFrom(sheets, scan_row_limit, index) ==
    IF index >= Len(sheets) THEN <<>>
    ELSE (IF SheetMatchesTitle(sheets[index + 1], scan_row_limit)
          THEN <<[index |-> index]>> ELSE <<>>)
         \o MatchedFrom(sheets, scan_row_limit, index + 1)

find_matched_sheets(sheets, scan_row_limit) == MatchedFrom(sheets, scan_row_limit, 0)

TableInfo(index, range_string) == [index |-> index, range_string |-> range_string]

\* Lines 291-301: the tables appended after a region border_range, looking at
\* the sheets from next_sheet_index on.
RECURSIVE ContinuationWalk(_, _, _)
ContinuationWalk(sheets, border_range, next_sheet_index) ==
    IF next_sheet_index >= Len(sheets) THEN <<>>
    ELSE LET next_range == find_border_range_in_sheet(sheets[next_sheet_index + 1]) IN
         IF next_range # NoRange /\ are_tables_similar(border_range, next_range)
         THEN <<TableInfo(next_sheet_index, next_range)>>
              \o ContinuationWalk(sheets, next_range, next_sheet_index + 1)
         ELSE <<>>

NoTables == [final_tables |-> <<>>, last_sheet_index |-> -1]

TablesFrom(sheets, info) ==
    LET border_range == find_border_range_in_sheet(sheets[info.index + 1])
        tables == <<TableInfo(info.index, border_range)>>
                  \o ContinuationWalk(sheets, border_range, info.index + 1)
    IN  [final_tables |-> tables, last_sheet_index |-> tables[Len(tables)].index]

\* Lines 283-304 as the claim reads them: only the first matched sheet is tried.
select_tables_FirstMatchOnly(sheets, matched_sheets_info) ==
    IF matched_sheets_info = <<>> THEN NoTables
    ELSE IF find_border_range_in_sheet(sheets[Head(matched_sheets_info).index + 1]) = NoRange
         THEN NoTables
         ELSE TablesFrom(sheets, Head(matched_sheets_info))

\* Lines 283-304 without the break of line 302, for the first and the last
\* matched sheet that has a region: the run of each is taken.
select_tables_AlsoLastMatch(sheets, matched_sheets_info) ==
    LET with_border ==
            SelectSeq(matched_sheets_info,
                      LAMBDA info : find_border_range_in_sheet(sheets[info.index + 1]) # NoRange)
    IN  IF with_border = <<>> THEN NoTables
        ELSE LET first == TablesFrom(sheets, Head(with_border))
                 last == TablesFrom(sheets, with_border[Len(with_border)])
             IN  IF Len(with_border) = 1 THEN first
                 ELSE [final_tables |-> first.final_tables \o last.final_tables,
                       last_sheet_index |-> last.last_sheet_index]

\* Lines 283-304: the for loop skips (continue) every matched sheet without a
\* border region and stops (break) after the first one that has a region.
select_tables(sheets, matched_sheets_info) ==
    LET with_border ==
            SelectSeq(matched_sheets_info,
                      LAMBDA info : find_border_range_in_sheet(sheets[info.index + 1]) # NoRange)
    IN  IF with_border = <<>> THEN NoTables
        ELSE TablesFrom(sheets, Head(with_border))

\* The destination worksheet of a new workbook: the cells created so far.
NewWorksheet == [cells |-> << >>, merged_cells |-> {}]

InMerge(m, r, c) == m.min_row <= r /\ r <= m.max_row /\ m.min_col <= c /\ c <= m.max_col
IsMergeAnchor(m, r, c) == r = m.min_row /\ c = m.min_col

\* dest_sheet.merge_cells: the range is recorded and every cell of it but the
\* top-left one becomes a value-less merged cell.
merge_cells(dest_sheet, m) ==
    LET inside == {rc \in (m.min_row..m.max_row) \X (m.min_col..m.max_col) :
                      ~IsMergeAnchor(m, rc[1], rc[2])}
    IN  [cells |-> [rc \in DOMAIN dest_sheet.cells \cup inside |->
                      IF rc \in inside
                      THEN Cell(None, IF rc \in DOMAIN dest_sheet.cells
                                      THEN dest_sheet.cells[rc].border ELSE FALSE)
                      ELSE dest_sheet.cells[rc]],
         merged_cells |-> dest_sheet.merged_cells \cup {m}]

RECURSIVE MergeAll(_, _)
MergeAll(dest_sheet, ms) ==
    IF ms = {} THEN dest_sheet
    ELSE LET m == CHOOSE x \in ms : TRUE
         IN  MergeAll(merge_cells(dest_sheet, m), ms \ {m})

\* copy_range with the row offset dropped (every region written from row 1 of
\* the region's own rows).
copy_range_NoRowOffset(source_sheet, dest_sheet, range_str, dest_start_row, dest_start_col) ==
    LET b == range_boundaries(range_str)
        targets == {<<dest_start_row + (r - b.min_row), dest_start_col + (c - b.min_col)>> :
                        r \in b.min_row..b.max_row, c \in b.min_col..b.max_col}
        copied == [rc \in DOMAIN dest_sheet.cells \cup targets |->
                      IF rc \in targets
                      THEN sheet_cell(source_sheet, rc[1] - dest_start_row + b.min_row,
                                      rc[2] - dest_start_col + b.min_col)
                      ELSE dest_sheet.cells[rc]]
        wholly == {m \in source_sheet.merged_cells :
                      /\ m.min_row >= b.min_row /\ m.max_row <= b.max_row
                      /\ m.min_col >= b.min_col /\ m.max_col <= b.max_col}
        moved == {MergeRange(m.min_row, m.max_row,
                             dest_start_col + m.min_col - b.min_col,
                             dest_start_col + m.max_col - b.min_col) : m \in wholly}
    IN  MergeAll([cells |-> copied, merged_cells |-> dest_sheet.merged_cells], moved)

\* Lines 115-146.
copy_range(source_sheet, dest_sheet, range_str, dest_start_row, dest_start_col) ==
    LET b == range_boundaries(range_str)
        targets == {<<dest_start_row + (r - b.min_row), dest_start_col + (c - b.min_col)>> :
                        r \in b.min_row..b.max_row, c \in b.min_col..b.max_col}
        copied == [rc \in DOMAIN dest_sheet.cells \cup targets |->
                      IF rc \in targets
                      THEN sheet_cell(source_sheet, rc[1] - dest_start_row + b.min_row,
                                      rc[2] - dest_start_col + b.min_col)
                      ELSE dest_sheet.cells[rc]]
        wholly == {m \in source_sheet.merged_cells :
                      /\ m.min_row >= b.min_row /\ m.max_row <= b.max_row
                      /\ m.min_col >= b.min_col /\ m.max_col <= b.max_col}
        moved == {MergeRange(dest_start_row + m.min_row - b.min_row,
                             dest_start_row + m.max_row - b.min_row,
                             dest_start_col + m.min_col - b.min_col,
                             dest_start_col + m.max_col - b.min_col) : m \in wholly}
    IN  MergeAll([cells |-> copied, merged_cells |-> dest_sheet.merged_cells], moved)

\* Lines 310-315: the regions are written one below the other.
RECURSIVE WriteTables(_, _, _, _)
WriteTables(sheets, tables, dest_sheet, next_row_to_write) ==
    IF tables = <<>> THEN dest_sheet
    ELSE LET table_info == Head(tables)
             b == range_boundaries(table_info.range_string)
         IN  WriteTables(sheets, Tail(tables),
                         copy_range(sheets[table_info.index + 1], dest_sheet,
                                    table_info.range_string, next_row_to_write, 1),
                         next_row_to_write + (b.max_row - b.min_row + 1))

\* A worksheet as a workbook file holds it and load_workbook returns it: the
\* grid 1..max_row x 1..max_column, an untouched cell being empty.
SavedSheet(ws) ==
    LET rows == {rc[1] : rc \in DOMAIN ws.cells}
        cols == {rc[2] : rc \in DOMAIN ws.cells}
        max_row == IF rows = {} THEN 1 ELSE SetMax(rows)
        max_column == IF cols = {} THEN 1 ELSE SetMax(cols)
    IN  [max_row |-> max_row, max_column |-> max_column,
         cells |-> [r \in 1..max_row |-> [c \in 1..max_column |->
                      IF <<r, c>> \in DOMAIN ws.cells THEN ws.cells[<<r, c>>] ELSE EmptyCell]],
         merged_cells |-> ws.merged_cells]

\* ------------------------------------------------------- configuration
\* The column names of the source, in ASCII (lines 37-61).
COLS_TO_FIND_BY_HEADER == <<"BondName", "IssueSize">>
HEADERS_TO_FIND == <<"ProjectName", "ProjectUnit", "Department">>
DATA_COL_NAMES == <<"TotalValue", "FiscalArrangement", "BondFinancing">>
SPECIAL_COL_NAME == "ExpectedTotalReturn"
EXTENDED_VAR_NAMES ==
    <<"ProjectType", "BondAmountForProject", "OfWhichMajorProjectCapital",
      "BriefDescription", "ConstructionPeriod", "OperationPeriod",
      "TotalInvestment", "OfWhichNonBondCapital", "SpecialBondFinancing",
      "OtherDebtFinancing">>
ADDITIONAL_VAR_NAME == "TotalRevenue"
METADATA_NAMES == <<"Year", "Region", "DataSource">>
FINAL_COLUMN_ORDER ==
    COLS_TO_FIND_BY_HEADER \o HEADERS_TO_FIND \o DATA_COL_NAMES \o <<SPECIAL_COL_NAME>>
    \o EXTENDED_VAR_NAMES \o <<ADDITIONAL_VAR_NAME>> \o METADATA_NAMES
OCCURRENCE_KEY == "_occurrence_index"

\* The text of a label as cell text.
Label(name) == <<name>>

\* ------------------------------------------------------------ dictionaries
\* A Python dict: its items in insertion order.
Item(k, v) == [k |-> k, v |-> v]
DictKeys(d) == [j \in 1..Len(d) |-> d[j].k]
DictHas(d, k) == \E j \in 1..Len(d) : d[j].k = k
DictGet(d, k, default) ==
    IF DictHas(d, k) THEN d[CHOOSE j \in 1..Len(d) : d[j].k = k].v ELSE default
DictSet(d, k, v) ==
    IF DictHas(d, k) THEN [j \in 1..Len(d) |-> IF d[j].k = k THEN Item(k, v) ELSE d[j]]
    ELSE Append(d, Item(k, v))
DictDel(d, k) == SelectSeq(d, LAMBDA it : it.k # k)
\* d.update(e): the keys d has take e's value in place, the others follow.
DictUpdate(d, e) ==
    [j \in 1..Len(d) |-> IF DictHas(e, d[j].k)
                         THEN Item(d[j].k, DictGet(e, d[j].k, d[j].v)) ELSE d[j]]
    \o SelectSeq(e, LAMBDA it : ~DictHas(d, it.k))
\* {key: None for key in keys}
DictOfNone(keys) == [j \in 1..Len(keys) |-> Item(keys[j], None)]

\* ------------------------------------------------------- layout resolver
\* Lines 335-348: the logical column starts of a row from column col on.
RECURSIVE LogicalStartsFrom(_, _, _)
LogicalStartsFrom(sheet, row_num, col) ==
    IF col > sheet.max_column THEN <<>>
    ELSE LET covering == {m \in sheet.merged_cells : InMerge(m, row_num, col)} IN
         <<col>> \o LogicalStartsFrom(sheet, row_num,
                        IF covering # {}
                        THEN (CHOOSE m \in covering : TRUE).max_col + 1
                        ELSE col + 1)

\* Lines 335-348 without the jump of line 344: every column a start.
get_logical_starts_for_row_EveryColumn(sheet, row_num) ==
    [c \in 1..sheet.max_column |-> c]

get_logical_starts_for_row(sheet, row_num) == LogicalStartsFrom(sheet, row_num, 1)

\* Lines 354-359; 0 stands for None.
get_absolute_col_from_logical_index_for_row(sheet, row_num, logical_index) ==
    LET logical_starts == get_logical_starts_for_row(sheet, row_num) IN
    IF 1 <= logical_index /\ logical_index <= Len(logical_starts)
    THEN logical_starts[logical_index] ELSE 0

\* ------------------------------------------------------------ anchor map
Location(sheet_idx, row, logical_index) ==
    [s_idx |-> sheet_idx, r |-> row, value_logical_index |-> logical_index]

\* anchor_location when there is none (line 400).
NoLocation == Location(-1, 0, 0)

\* Lines 377-392 for one row: the anchors the row adds.
AnchorsOfRow(sheet, current_absolute_idx, r_idx) ==
    LET key_col == get_absolute_col_from_logical_index_for_row(sheet, r_idx, 1)
        value_col == get_absolute_col_from_logical_index_for_row(sheet, r_idx, 2)
    IN  IF key_col = 0 \/ value_col = 0 THEN <<>>
        ELSE IF clean_for_matching(sheet_cell(sheet, r_idx, key_col).value) # Label("ProjectName")
        THEN <<>>
        ELSE LET project_name == clean_for_matching(sheet_cell(sheet, r_idx, value_col).value)
             IN  IF project_name = <<>> THEN <<>>
                 ELSE <<[name |-> project_name,
                         location |-> Location(current_absolute_idx, r_idx, 2)]>>

\* Lines 374-392: the anchors in scan order, from row r_idx of sheet idx on.
RECURSIVE AnchorScan(_, _, _)
AnchorScan(original_sheets, idx, r_idx) ==
    IF idx >= Len(original_sheets) THEN <<>>
    ELSE IF r_idx > original_sheets[idx + 1].max_row
         THEN AnchorScan(original_sheets, idx + 1, 1)
         ELSE AnchorsOfRow(original_sheets[idx + 1], idx, r_idx)
              \o AnchorScan(original_sheets, idx, r_idx + 1)

\* The scan started inside the consolidated run (one sheet too early).
build_anchor_map_FromLastSheet(original_sheets, start_sheet_idx) ==
    LET found == AnchorScan(original_sheets, start_sheet_idx - 1, 1) IN
    [name \in {found[j].name : j \in 1..Len(found)} |->
        LET of_name == SelectSeq(found, LAMBDA a : a.name = name)
        IN  [j \in 1..Len(of_name) |-> of_name[j].location]]

\* Lines 362-395: each name's locations, in scan order.
build_anchor_map(original_sheets, start_sheet_idx) ==
    LET found == AnchorScan(original_sheets, start_sheet_idx, 1) IN
    [name \in {found[j].name : j \in 1..Len(found)} |->
        LET of_name == SelectSeq(found, LAMBDA a : a.name = name)
        IN  [j \in 1..Len(of_name) |-> of_name[j].location]]

\* anchor_map.get(name, [])
AnchorLocations(anchor_map, name) ==
    IF name \in DOMAIN anchor_map THEN anchor_map[name] ELSE <<>>

\* ------------------------------------------------- extended-field walk
SEARCH_LIMIT == 10

\* Lines 411-416 and 439-445: the steps of a forward scan from row r of sheet
\* s_idx, in order: a row to look at, or (row 0) the move to the next sheet
\* once the rows of a sheet are used up.
RECURSIVE ScanSteps(_, _, _)
ScanSteps(original_sheets, s_idx, r) ==
    IF s_idx >= Len(original_sheets) THEN <<>>
    ELSE [k \in 1..(original_sheets[s_idx + 1].max_row - r + 1) |->
             [s_idx |-> s_idx, r |-> r + k - 1]]
         \o <<[s_idx |-> s_idx, r |-> 0]>>
         \o ScanSteps(original_sheets, s_idx + 1, 1)

\* Lines 418-425: the step looks at a row whose value cell has a border.
IsBorderedStep(original_sheets, step, value_logical_index) ==
    /\ step.r # 0
    /\ LET current_sheet == original_sheets[step.s_idx + 1]
           absolute_col == get_absolute_col_from_logical_index_for_row(
                               current_sheet, step.r, value_logical_index)
       IN  absolute_col # 0 /\ has_border(sheet_cell(current_sheet, step.r, absolute_col))

\* The n-th smallest element of a set of numbers.
NthOf(S, n) == CHOOSE k \in S : Cardinality({h \in S : h < k}) = n - 1

\* Lines 409-431: the fields take, in order, the values of the bordered value
\* cells met from the cursor on, each step being used once; a field the scan
\* finds no cell for is None.
WalkFields(original_sheets, steps, value_logical_index) ==
    LET hits == {k \in 1..Len(steps) :
                    IsBorderedStep(original_sheets, steps[k], value_logical_index)}
        value_at(k) ==
            LET current_sheet == original_sheets[steps[k].s_idx + 1]
            IN  sheet_cell(current_sheet, steps[k].r,
                           get_absolute_col_from_logical_index_for_row(
                               current_sheet, steps[k].r, value_logical_index)).value
    IN  [vars |-> [j \in 1..Len(EXTENDED_VAR_NAMES) |->
                      Item(EXTENDED_VAR_NAMES[j],
                           IF j <= Cardinality(hits) THEN value_at(NthOf(hits, j)) ELSE None)],
         next |-> IF Cardinality(hits) >= Len(EXTENDED_VAR_NAMES)
                  THEN NthOf(hits, Len(EXTENDED_VAR_NAMES)) + 1
                  ELSE Len(steps) + 1]

\* Lines 447-453: the step looks at a row that holds the additional field.
IsAdditionalStep(original_sheets, step) ==
    /\ step.r # 0
    /\ LET current_sheet == original_sheets[step.s_idx + 1]
           key_col == get_absolute_col_from_logical_index_for_row(current_sheet, step.r, 1)
           value_col == get_absolute_col_from_logical_index_for_row(current_sheet, step.r, 2)
       IN  /\ key_col # 0 /\ value_col # 0
           /\ clean_cell(sheet_cell(current_sheet, step.r, key_col).value)
                  = Label(ADDITIONAL_VAR_NAME)
           /\ has_border(sheet_cell(current_sheet, step.r, value_col))

\* Lines 434-456: at most SEARCH_LIMIT further steps, from step next on.
AdditionalScan(original_sheets, steps, next) ==
    LET last == IF next + SEARCH_LIMIT - 1 < Len(steps)
                THEN next + SEARCH_LIMIT - 1 ELSE Len(steps)
        hits == {k \in next..last : IsAdditionalStep(original_sheets, steps[k])}
    IN  IF hits = {} THEN None
        ELSE LET k == SetMin(hits)
                 current_sheet == original_sheets[steps[k].s_idx + 1]
             IN  sheet_cell(current_sheet, steps[k].r,
                            get_absolute_col_from_logical_index_for_row(
                                current_sheet, steps[k].r, 2)).value

\* Lines 398-458.
extract_vars_from_anchor(anchor_location, original_sheets) ==
    LET steps == ScanSteps(original_sheets, anchor_location.s_idx, anchor_location.r + 1)
        walk == WalkFields(original_sheets, steps, anchor_location.value_logical_index)
    IN  DictSet(walk.vars, ADDITIONAL_VAR_NAME,
                AdditionalScan(original_sheets, steps, walk.next))

\* ------------------------------------------------------- forward fill
\* Line 108 negated with the test of the cleaned text left out: only None
\* counts as blank.
IsBlank_NoneOnly(v) == v = None

\* Line 108 negated: the cell counts as blank.
IsBlank(v) == v = None \/ clean_cell(v) = <<>>

\* Lines 106-111 for one column, from row r on, last_val carried.
RECURSIVE FillColumn(_, _, _)
FillColumn(column, r, last_val) ==
    IF r > Len(column) THEN <<>>
    ELSE IF ~IsBlank(column[r])
         THEN <<column[r]>> \o FillColumn(column, r + 1, column[r])
         ELSE IF last_val # None
              THEN <<last_val>> \o FillColumn(column, r + 1, last_val)
              ELSE <<column[r]>> \o FillColumn(column, r + 1, last_val)

\* Lines 95-112.
manual_ffill(data) ==
    IF data = <<>> THEN <<>>
    ELSE LET num_cols == SetMax({Len(data[r]) : r \in 1..Len(data)})
             padded == [r \in 1..Len(data) |-> [c \in 1..num_cols |->
                          IF c <= Len(data[r]) THEN data[r][c] ELSE None]]
             filled == [c \in 1..num_cols |->
                          FillColumn([r \in 1..Len(data) |-> padded[r][c]], 1, None)]
         IN  [r \in 1..Len(data) |-> [c \in 1..num_cols |-> filled[c][r]]]

\* ---------------------------------------------------- base-row extraction
HEADER_SCAN_ROWS == 5

\* Line 471.
SheetValues(sheet) ==
    [r \in 1..sheet.max_row |-> [c \in 1..sheet.max_column |-> sheet.cells[r][c].value]]

\* Lines 481-482: the window of row r starting at column c holds the headers.
HeaderAt(data_filled, r, c) ==
    \A k \in 1..Len(HEADERS_TO_FIND) :
        clean_cell(data_filled[r][c + k - 1]) = Label(HEADERS_TO_FIND[k])

\* Lines 478-485: the first window in row-major order, <<0, 0>> when none.
find_header(data_filled) ==
    LET rows == 1..(IF Len(data_filled) < HEADER_SCAN_ROWS
                    THEN Len(data_filled) ELSE HEADER_SCAN_ROWS)
        hits == {rc \in rows \X (1..(IF data_filled = <<>> THEN 0 ELSE Len(data_filled[1]))) :
                    /\ rc[2] <= Len(data_filled[rc[1]]) - Len(HEADERS_TO_FIND) + 1
                    /\ HeaderAt(data_filled, rc[1], rc[2])}
    IN  IF hits = {} THEN <<0, 0>>
        ELSE LET r == SetMin({rc[1] : rc \in hits})
             IN  <<r, SetMin({rc[2] : rc \in {x \in hits : x[1] = r}})>>

\* Lines 492-499: final name -> column of the first header cell with that text.
RECURSIVE FoundColsMap(_, _)
FoundColsMap(header_row, names) ==
    IF names = <<>> THEN <<>>
    ELSE LET at == {c \in 1..Len(header_row) : clean_cell(header_row[c]) = Label(Head(names))}
         IN  (IF at = {} THEN <<>> ELSE <<Item(Head(names), PyInt(SetMin(at)))>>)
             \o FoundColsMap(header_row, Tail(names))

\* Lines 519-525: the rightmost bordered cell of the row that has a value.
ExpectedReturn(sheet, row) ==
    LET cols == {c \in 1..sheet.max_column :
                    has_border(sheet_cell(sheet, row, c)) /\ sheet_cell(sheet, row, c).value # None}
    IN  IF cols = {} THEN None ELSE sheet_cell(sheet, row, SetMax(cols)).value

\* Lines 507-525: the record of table row i.
RowDict(sheet, data_original, data_filled, header_col, found_cols_map, i) ==
    LET dynamic == [j \in 1..Len(found_cols_map) |->
                       Item(found_cols_map[j].k,
                            IF found_cols_map[j].v.n <= Len(data_filled[i])
                            THEN data_filled[i][found_cols_map[j].v.n] ELSE None)]
        fixed == [k \in 1..Len(HEADERS_TO_FIND) |->
                     Item(HEADERS_TO_FIND[k], data_filled[i][header_col + k - 1])]
        numbers == [k \in 1..Len(DATA_COL_NAMES) |->
                       Item(DATA_COL_NAMES[k],
                            IF header_col + Len(HEADERS_TO_FIND) + k - 1 <= Len(data_original[i])
                            THEN data_original[i][header_col + Len(HEADERS_TO_FIND) + k - 1]
                            ELSE None)]
    IN  DictSet(DictUpdate(DictUpdate(DictUpdate(<<>>, dynamic), fixed), numbers),
                SPECIAL_COL_NAME, ExpectedReturn(sheet, i))

\* Lines 503-526: the records of the rows from i on.
RECURSIVE BaseRows(_, _, _, _, _, _)
BaseRows(sheet, data_original, data_filled, header_col, found_cols_map, i) ==
    IF i > sheet.max_row THEN <<>>
    ELSE (IF clean_cell(data_filled[i][header_col]) = <<>> THEN <<>>
          ELSE <<RowDict(sheet, data_original, data_filled, header_col, found_cols_map, i)>>)
         \o BaseRows(sheet, data_original, data_filled, header_col, found_cols_map, i + 1)

\* Lines 471-528: the base records of the consolidated table ([] when the
\* header is not found).
base_extract(sheet) ==
    LET data_original == SheetValues(sheet)
        data_filled == manual_ffill(data_original)
        header == find_header(data_filled)
    IN  IF header = <<0, 0>> THEN <<>>
        ELSE BaseRows(sheet, data_original, data_filled, header[2],
                      FoundColsMap(data_filled[header[1]], COLS_TO_FIND_BY_HEADER),
                      header[1] + 1)

\* Lines 531-537 counting by the raw name instead of the normalised name.
RECURSIVE number_occurrences(_, _)
number_occurrences_ByRawName(records, name_counts) ==
    IF records = <<>> THEN <<>>
    ELSE LET record == Head(records)
             cleaned_name == clean_for_matching(DictGet(record, "ProjectName", None))
             raw_name == clean_cell(DictGet(record, "ProjectName", None))
         IN  IF cleaned_name = <<>>
             THEN <<record>> \o number_occurrences(Tail(records), name_counts)
             ELSE LET current_count == DictGet(name_counts, raw_name, PyInt(0)).n + 1
                  IN  <<DictSet(record, OCCURRENCE_KEY, PyInt(current_count))>>
                      \o number_occurrences(Tail(records),
                                            DictSet(name_counts, raw_name, PyInt(current_count)))

\* Lines 531-537.
number_occurrences(records, name_counts) ==
    IF records = <<>> THEN <<>>
    ELSE LET record == Head(records)
             cleaned_name == clean_for_matching(DictGet(record, "ProjectName", None))
         IN  IF cleaned_name = <<>>
             THEN <<record>> \o number_occurrences(Tail(records), name_counts)
             ELSE LET current_count == DictGet(name_counts, cleaned_name, PyInt(0)).n + 1
                  IN  <<DictSet(record, OCCURRENCE_KEY, PyInt(current_count))>>
                      \o number_occurrences(Tail(records),
                                            DictSet(name_counts, cleaned_name, PyInt(current_count)))

\* Lines 543-560 for one record.
enrich_record(record, anchor_map, original_sheets, metadata) ==
    LET cleaned_project_name == clean_for_matching(DictGet(record, "ProjectName", None))
        occurrence_index == DictGet(record, OCCURRENCE_KEY, PyInt(-1)).n
        anchor_locations == AnchorLocations(anchor_map, cleaned_project_name)
        extended_vars ==
            IF 1 <= occurrence_index /\ occurrence_index <= Len(anchor_locations)
            THEN extract_vars_from_anchor(anchor_locations[occurrence_index], original_sheets)
            ELSE DictSet(DictOfNone(EXTENDED_VAR_NAMES), ADDITIONAL_VAR_NAME, None)
    IN  DictUpdate(DictDel(DictUpdate(record, extended_vars), OCCURRENCE_KEY), metadata)

\* Lines 461-562 once the consolidated workbook is open.
extract_data_with_extended_vars(sheet, original_sheets, last_sheet_idx, metadata) ==
    LET base_extracted_data == number_occurrences(base_extract(sheet), <<>>)
        anchor_map == build_anchor_map(original_sheets, last_sheet_idx + 1)
    IN  [j \in 1..Len(base_extracted_data) |->
            enrich_record(base_extracted_data[j], anchor_map, original_sheets, metadata)]

\* ------------------------------------------------------------ data frames
\* A DataFrame: its column names and its rows, each row's values in column order.
Frame(columns, rows) == [columns |-> columns, rows |-> rows]
EmptyFrame == Frame(<<>>, <<>>)

\* acc followed by the names of more that acc lacks, each once, in order.
OrderedUnion(acc, more) ==
    LET fresh == {j \in 1..Len(more) :
                     /\ \A h \in 1..Len(acc) : acc[h] # more[j]
                     /\ \A h \in 1..(j - 1) : more[h] # more[j]}
    IN  acc \o [k \in 1..Cardinality(fresh) |->
                   more[CHOOSE j \in fresh : Cardinality({h \in fresh : h < j}) = k - 1]]

\* The keys of the records in order of first appearance.
RECURSIVE KeysInOrder(_)
KeysInOrder(records) ==
    IF records = <<>> THEN <<>>
    ELSE DictKeys(Head(records)) \o KeysInOrder(Tail(records))

AllKeys(records) == OrderedUnion(<<>>, KeysInOrder(records))

ColumnIndex(columns, name) ==
    IF \E j \in 1..Len(columns) : columns[j] = name
    THEN CHOOSE j \in 1..Len(columns) : columns[j] = name ELSE 0

\* pd.DataFrame(list of dicts): a key a dict lacks is a missing value.
FrameFromRecords(records) ==
    LET columns == AllKeys(records) IN
    Frame(columns, [i \in 1..Len(records) |-> [j \in 1..Len(columns) |->
                      DictGet(records[i], columns[j], None)]])

\* df[names]: the columns names, in that order (a missing value for a column
\* the frame lacks, which lines 634-636 add beforehand).
Reindex(df, names) ==
    Frame(names, [i \in 1..Len(df.rows) |-> [j \in 1..Len(names) |->
                    IF ColumnIndex(df.columns, names[j]) = 0 THEN None
                    ELSE df.rows[i][ColumnIndex(df.columns, names[j])]]])

\* Lines 632-637 without the final selection of line 637.
final_frame_NoSelection(enriched_data) ==
    LET df == FrameFromRecords(enriched_data)
    IN  Reindex(df, OrderedUnion(df.columns, FINAL_COLUMN_ORDER))

\* Lines 632-637.
final_frame(enriched_data) ==
    LET df == FrameFromRecords(enriched_data)
        completed == Reindex(df, OrderedUnion(df.columns, FINAL_COLUMN_ORDER))
    IN  Reindex(completed, FINAL_COLUMN_ORDER)

\* pd.concat([a, b], ignore_index=True).
concat(a, b) ==
    LET columns == OrderedUnion(a.columns, b.columns)
    IN  Frame(columns, Reindex(a, columns).rows \o Reindex(b, columns).rows)

\* ------------------------------------------------------- input documents
CoordTok ==
    << <<"r1c1", "r1c2", "r1c3", "r1c4">>, <<"r2c1", "r2c2", "r2c3", "r2c4">>,
       <<"r3c1", "r3c2", "r3c3", "r3c4">>, <<"r4c1", "r4c2", "r4c3", "r4c4">> >>

TitleText == Text(<<"2020", "SpecialBond", " ", "ProjectInfo">>)

CoveredByMerge(merges, r, c) ==
    \E m \in merges : InMerge(m, r, c) /\ ~IsMergeAnchor(m, r, c)

\* A loaded worksheet of nrows x ncols cells: the cell at title_rc (if any)
\* holds the title, the cells of bordered carry a border, and a cell covered
\* by a merge (other than its top-left cell) has no value.
GridSheet(tag, nrows, ncols, title_rc, bordered, merges) ==
    [max_row |-> nrows, max_column |-> ncols,
     cells |-> [r \in 1..nrows |-> [c \in 1..ncols |->
                  Cell(IF CoveredByMerge(merges, r, c) THEN None
                       ELSE IF <<r, c>> = title_rc THEN TitleText
                       ELSE Text(<<tag, CoordTok[r][c]>>),
                       <<r, c>> \in bordered)]],
     merged_cells |-> merges]

Block(r1, r2, c1, c2) == (r1..r2) \X (c1..c2)

ShapeTitle3 == GridSheet("t", 3, 3, <<1, 1>>, Block(2, 3, 1, 3), {})
ShapeCont3 == GridSheet("c", 2, 3, <<0, 0>>, Block(1, 2, 1, 3), {MergeRange(1, 2, 1, 1)})
ShapeCont3Shifted ==
    GridSheet("d", 3, 4, <<0, 0>>, {<<2, 2>>, <<3, 4>>},
              {MergeRange(2, 2, 2, 3), MergeRange(1, 2, 4, 4)})
ShapeCont2 == GridSheet("e", 2, 2, <<0, 0>>, Block(1, 2, 1, 2), {})
ShapeNoTable == GridSheet("n", 2, 2, <<0, 0>>, {}, {})
ShapeTitleNoTable == GridSheet("u", 2, 2, <<1, 2>>, {}, {})
ShapeTitle2 == GridSheet("w", 2, 2, <<1, 1>>, Block(2, 2, 1, 2), {})
ShapeLateTitle3 == GridSheet("x", 4, 3, <<4, 1>>, Block(1, 3, 1, 3), {})

SheetShapes ==
    {ShapeTitle3, ShapeCont3, ShapeCont3Shifted, ShapeCont2, ShapeNoTable,
     ShapeTitleNoTable, ShapeTitle2, ShapeLateTitle3}

ExcelFile(readable, worksheets) == [readable |-> readable, worksheets |-> worksheets]
UnreadableFile == ExcelFile(FALSE, <<>>)
FileShapes ==
    {ExcelFile(TRUE, <<sh>>) : sh \in SheetShapes}
    \cup {UnreadableFile, ExcelFile(TRUE, <<ShapeTitle3, ShapeCont3>>)}

RECURSIVE ConcatSheets(_)
ConcatSheets(files) ==
    IF files = <<>> THEN <<>> ELSE Head(files).worksheets \o ConcatSheets(Tail(files))

\* ------------------------------------------------------------------- state
VARIABLES
    pc,                   \* the position of the running function
    file_group,           \* the files of the group being processed
    all_sheets_in_group,  \* consolidate_tables_from_group: the loaded sheets
    matched_sheets_info,  \* the title-matching sheets, in order
    final_tables,         \* the regions chosen for the consolidated table
    last_sheet_index,     \* index of the last sheet of the consolidated run
    dest_sheet,           \* the worksheet of the new workbook
    cons_ret,             \* what consolidate_tables_from_group returned
    base_extracted_data,  \* extract_data_with_extended_vars: the base records
    anchor_map,           \* the anchor locations by normalised name
    enriched_data,        \* what extract_data_with_extended_vars returned
    run,                  \* the number of the run of main
    i,                    \* main: the position in excel_file_groups
    excel_file_groups,    \* main: the discovered groups, sorted
    source_exists,        \* whether SOURCE_FOLDER exists
    processed_groups,     \* main: the identifiers loaded from the log
    output_file,          \* the output workbook on disk
    new_data_df,          \* main: the frame of the current group
    combined_data_df,     \* append_data_and_log_to_excel: records to write
    combined_log_df,      \* append_data_and_log_to_excel: log to write
    writer,               \* the sheets the open ExcelWriter holds
    attempted,            \* history: groups consolidated in this run
    skipped,              \* history: groups skipped in this run
    committed,            \* history: groups whose write completed, ever
    committed_before,     \* history: committed when this run started
    failed,               \* history: groups whose latest attempt failed
    faulted,              \* history: an I/O fault or a termination happened
    file_at_prev_end,     \* history: the output file when the last run ended
    prev_end,             \* history: how the last run ended
    layout_sheet,         \* the worksheet whose rows are resolved
    row_logical_starts_cache, \* sheet._row_logical_starts_cache
    layout_call,          \* the last call of a layout function
    layout_ret,           \* what that call returned
    ffill_data,           \* manual_ffill: the grid passed in (data)
    filled_data,          \* manual_ffill: the grid returned
    walk_files,           \* discover_excel_files: the files as os.walk yields them
    walk_pos,             \* the position of the walk
    grouped_files,        \* discover_excel_files: group key -> (number, path) list
    final_groups,         \* discover_excel_files: the groups returned
    meta_path,            \* main: file_group[0] of the group whose metadata is derived
    meta_result,          \* main: the metadata of that group
    scan_sheets,          \* extract_vars_from_anchor: original_sheets
    anchor_loc,           \* extract_vars_from_anchor: anchor_location
    var_index,            \* the position of the for loop of line 409
    found_var,            \* found (line 410)
    current_s_idx,        \* the cursor: sheet index
    current_r,            \* the cursor: row
    extracted_vars,       \* the dict being filled
    search_count,         \* the iterations of the for loop of line 438 so far
    found_additional_var, \* line 436
    found_at,             \* history: where each field found so far was found
    rate_limit_config,    \* KimiBudgetAnalyzer: self.rate_limit_config
    conversation_history, \* KimiBudgetAnalyzer: self.conversation_history[city_name]
    file_ids,             \* analyze_with_kimi: the files passed in
    retry_count,          \* analyze_with_kimi: retry_count
    messages,             \* analyze_with_kimi: messages
    valid_files,          \* analyze_with_kimi: valid_files
    last_error,           \* analyze_with_kimi: the exception caught at line 268
    kimi_ret,             \* analyze_with_kimi: what it returned
    attempt_count         \* history: passes of the while loop of line 231 begun

consVars == <<file_group, all_sheets_in_group, matched_sheets_info, final_tables,
              last_sheet_index, dest_sheet, cons_ret>>
extVars == <<base_extracted_data, anchor_map, enriched_data>>
mainVars == <<run, i, excel_file_groups, source_exists, processed_groups, output_file,
              new_data_df, combined_data_df, combined_log_df, writer, attempted, skipped,
              committed, committed_before, failed, faulted, file_at_prev_end, prev_end>>
layoutVars == <<layout_sheet, row_logical_starts_cache, layout_call, layout_ret>>
\* The variables of the functions exercised on their own.
ffillVars == <<ffill_data, filled_data>>
discVars == <<walk_files, walk_pos, grouped_files, final_groups>>
metaVars == <<meta_path, meta_result>>
varsVars == <<scan_sheets, anchor_loc, var_index, found_var, current_s_idx, current_r, extracted_vars, search_count, found_additional_var, found_at>>
kimiVars == <<rate_limit_config, conversation_history, file_ids, retry_count, messages, valid_files, last_error, kimi_ret, attempt_count>>
fnVars == <<layoutVars, ffillVars, discVars, metaVars, varsVars, kimiVars>>
pipeVars == <<mainVars, fnVars>>
vars == <<pc, consVars, extVars, pipeVars>>

\* return None, [], -1
ConsFailure == [ok |-> FALSE, table |-> SavedSheet(NewWorksheet),
                original_sheets |-> <<>>, last_sheet_idx |-> -1]
ConsSuccess(ws, sheets, last) ==
    [ok |-> TRUE, table |-> SavedSheet(ws), original_sheets |-> sheets,
     last_sheet_idx |-> last]
NotReturned == [ok |-> FALSE, table |-> SavedSheet(NewWorksheet),
                original_sheets |-> <<>>, last_sheet_idx |-> -2]

\* The variables of main while a function is exercised on its own.
MainIdle ==
    /\ run = 1
    /\ i = 1
    /\ excel_file_groups = <<>>
    /\ source_exists = TRUE
    /\ processed_groups = {}
    /\ output_file = [kind |-> "absent", sheets |-> <<>>]
    /\ new_data_df = EmptyFrame
    /\ combined_data_df = EmptyFrame
    /\ combined_log_df = EmptyFrame
    /\ writer = <<>>
    /\ attempted = {}
    /\ skipped = {}
    /\ committed = {}
    /\ committed_before = {}
    /\ failed = {}
    /\ faulted = FALSE
    /\ file_at_prev_end = [kind |-> "absent", sheets |-> <<>>]
    /\ prev_end = "none"

\* No call of a layout function was made.
NoCall == [fn |-> "none", row_num |-> 0, logical_index |-> 0]
LayoutIdle ==
    /\ layout_sheet = NewWorksheet
    /\ row_logical_starts_cache = <<>>
    /\ layout_call = NoCall
    /\ layout_ret = [starts |-> <<>>, col |-> 0]

FfillIdle ==
    /\ ffill_data = <<>>
    /\ filled_data = <<>>

DiscIdle ==
    /\ walk_files = <<>>
    /\ walk_pos = 1
    /\ grouped_files = <<>>
    /\ final_groups = <<>>

MetaIdle ==
    /\ meta_path = <<>>
    /\ meta_result = <<>>

VarsIdle ==
    /\ scan_sheets = <<>>
    /\ anchor_loc = NoLocation
    /\ var_index = 1
    /\ found_var = FALSE
    /\ current_s_idx = 0
    /\ current_r = 0
    /\ extracted_vars = <<>>
    /\ search_count = 0
    /\ found_additional_var = FALSE
    /\ found_at = <<>>

KimiIdle ==
    /\ rate_limit_config = [ENABLE_RETRY |-> TRUE, MAX_RETRIES |-> 3]
    /\ conversation_history = <<>>
    /\ file_ids = <<>>
    /\ retry_count = 0
    /\ messages = <<>>
    /\ valid_files = 0
    /\ last_error = "none"
    /\ kimi_ret = [returned |-> FALSE, ok |-> FALSE, valid_files |-> 0]
    /\ attempt_count = 0

FnIdle == LayoutIdle /\ FfillIdle /\ DiscIdle /\ MetaIdle /\ VarsIdle /\ KimiIdle

PipelineIdle == MainIdle /\ FnIdle

\* The variables of consolidate_tables_from_group before it is entered.
ConsIdle ==
    /\ file_group = <<>>
    /\ all_sheets_in_group = <<>>
    /\ matched_sheets_info = <<>>
    /\ final_tables = <<>>
    /\ last_sheet_index = -1
    /\ dest_sheet = NewWorksheet
    /\ cons_ret = NotReturned

\* The variables of extract_data_with_extended_vars before it is entered.
ExtractIdle ==
    /\ base_extracted_data = <<>>
    /\ anchor_map = <<>>
    /\ enriched_data = <<>>

InitCons ==
    /\ pc = "cons_load"
    /\ file_group \in NonEmptySeqsUpTo(FileShapes, MaxFiles)
    /\ all_sheets_in_group = <<>>
    /\ matched_sheets_info = <<>>
    /\ final_tables = <<>>
    /\ last_sheet_index = -1
    /\ dest_sheet = NewWorksheet
    /\ cons_ret = NotReturned
    /\ ExtractIdle
    /\ PipelineIdle

\* Lines 260-267.
ConsLoad ==
    /\ pc = "cons_load"
    /\ IF \A k \in 1..Len(file_group) : file_group[k].readable
       THEN /\ all_sheets_in_group' = ConcatSheets(file_group)
            /\ pc' = "cons_match"
            /\ UNCHANGED cons_ret
       ELSE /\ cons_ret' = ConsFailure
            /\ pc' = "cons_return"
            /\ UNCHANGED all_sheets_in_group
    /\ UNCHANGED <<file_group, matched_sheets_info, final_tables, last_sheet_index, dest_sheet>>
    /\ UNCHANGED extVars
    /\ UNCHANGED pipeVars

\* Lines 269-280.
ConsMatch ==
    /\ pc = "cons_match"
    /\ matched_sheets_info' = find_matched_sheets(all_sheets_in_group, SCAN_ROW_LIMIT)
    /\ IF matched_sheets_info' = <<>>
       THEN cons_ret' = ConsFailure /\ pc' = "cons_return"
       ELSE pc' = "cons_select" /\ UNCHANGED cons_ret
    /\ UNCHANGED <<file_group, all_sheets_in_group, final_tables, last_sheet_index, dest_sheet>>
    /\ UNCHANGED extVars
    /\ UNCHANGED pipeVars

\* Lines 282-304.
ConsSelect ==
    /\ pc = "cons_select"
    /\ LET sel == select_tables(all_sheets_in_group, matched_sheets_info) IN
       /\ final_tables' = sel.final_tables
       /\ last_sheet_index' = sel.last_sheet_index
       /\ IF sel.final_tables = <<>>
          THEN cons_ret' = ConsFailure /\ pc' = "cons_return"
          ELSE pc' = "cons_write" /\ UNCHANGED cons_ret
    /\ UNCHANGED <<file_group, all_sheets_in_group, matched_sheets_info, dest_sheet>>
    /\ UNCHANGED extVars
    /\ UNCHANGED pipeVars

\* Lines 306-315.
ConsWrite ==
    /\ pc = "cons_write"
    /\ dest_sheet' = WriteTables(all_sheets_in_group, final_tables, NewWorksheet, 1)
    /\ pc' = "cons_save"
    /\ UNCHANGED <<file_group, all_sheets_in_group, matched_sheets_info, final_tables,
                   last_sheet_index, cons_ret>>
    /\ UNCHANGED extVars
    /\ UNCHANGED pipeVars

\* Lines 317-320: the workbook is saved.
ConsSaveOk ==
    /\ pc = "cons_save"
    /\ cons_ret' = ConsSuccess(dest_sheet, all_sheets_in_group, last_sheet_index)
    /\ pc' = "cons_return"
    /\ UNCHANGED <<file_group, all_sheets_in_group, matched_sheets_info, final_tables,
                   last_sheet_index, dest_sheet>>
    /\ UNCHANGED extVars
    /\ UNCHANGED pipeVars

\* Lines 321-323: saving raised.
ConsSaveFail ==
    /\ pc = "cons_save"
    /\ cons_ret' = ConsFailure
    /\ pc' = "cons_return"
    /\ UNCHANGED <<file_group, all_sheets_in_group, matched_sheets_info, final_tables,
                   last_sheet_index, dest_sheet>>
    /\ UNCHANGED extVars
    /\ UNCHANGED pipeVars

NextCons == ConsLoad \/ ConsMatch \/ ConsSelect \/ ConsWrite \/ ConsSaveOk \/ ConsSaveFail

SpecCons == InitCons /\ [][NextCons]_vars

\* Lines 254-323 as one function; save_ok says whether the save succeeds.
consolidate_tables_from_group(group, save_ok) ==
    IF \E k \in 1..Len(group) : ~group[k].readable THEN ConsFailure
    ELSE LET sheets == ConcatSheets(group)
             matched == find_matched_sheets(sheets, SCAN_ROW_LIMIT)
             sel == select_tables(sheets, matched)
         IN  IF matched = <<>> \/ sel.final_tables = <<>> \/ ~save_ok THEN ConsFailure
             ELSE ConsSuccess(WriteTables(sheets, sel.final_tables, NewWorksheet, 1),
                              sheets, sel.last_sheet_index)

\* --------------------------------------------- documents for extraction
Digit == <<"1", "2", "3", "4", "5", "6", "7", "8">>
BCell(tokens) == Cell(Text(tokens), TRUE)
PCell(tokens) == Cell(Text(tokens), FALSE)

\* The table sheet of a report: a title row, the header row and one bordered
\* row per name; with_bond adds a leading 债券名称 column.
TableSheet(names, with_bond) ==
    LET lead(c) == IF with_bond THEN <<c>> ELSE <<>>
        blank == [c \in 1..(IF with_bond THEN 4 ELSE 3) |-> EmptyCell]
    IN  [max_row |-> Len(names) + 2,
         max_column |-> IF with_bond THEN 5 ELSE 4,
         cells |-> << <<Cell(TitleText, FALSE)>> \o blank,
                      lead(BCell(<<"BondName">>))
                         \o <<BCell(<<"ProjectName">>), BCell(<<"ProjectUnit">>),
                              BCell(<<"Department">>), BCell(<<"TotalValue">>)>> >>
                   \o [k \in 1..Len(names) |->
                         lead(BCell(<<"bond", Digit[k]>>))
                         \o <<Cell(names[k], TRUE), BCell(<<"unit", Digit[k]>>),
                              BCell(<<"dept", Digit[k]>>), BCell(<<"100", Digit[k]>>)>>],
         merged_cells |-> {}]

\* The project-name columns of the table sheets: names that repeat, names
\* that differ only in what normalisation removes, and distinct names.
NameColumns ==
    {<<>>,
     <<Text(<<"Jia">>)>>,
     <<Text(<<"Jia">>), Text(<<"Jia", "1">>)>>,
     <<Text(<<"Jia">>), Text(<<"Yi">>)>>,
     <<Text(<<"Yi">>), Text(<<"Jia", "1">>), Text(<<"Yi">>)>>,
     <<Text(<<"Jia", "1">>), Text(<<"Jia">>), Text(<<"Jia">>)>>}

\* The rows of the notes that follow the table, three columns wide:
\*   anchorJia, anchorYi  项目名称: <name>, no border
\*   val                  a label and a bordered value
\*   addl                 债券存续期内项目总收益 and a bordered value
\*   merged               columns 1-2 merged, a bordered value in column 3
NoteRowKinds == {"anchorJia", "anchorYi", "val", "addl", "merged"}
NoteRow(kind, tag) ==
    CASE kind = "anchorJia" ->
            <<PCell(<<"ProjectName", ":">>), PCell(<<"Jia", " ", "2">>), EmptyCell>>
      [] kind = "anchorYi" ->
            <<PCell(<<"ProjectName">>), PCell(<<"Yi">>), EmptyCell>>
      [] kind = "val" -> <<PCell(<<"label">>), BCell(<<"v", tag>>), EmptyCell>>
      [] kind = "addl" -> <<PCell(<<"TotalRevenue", " ">>), BCell(<<"rev", tag>>), EmptyCell>>
      [] OTHER -> <<PCell(<<"note">>), EmptyCell, BCell(<<"w", tag>>)>>

\* One note sheet holding the rows kinds (their tags number the rows from first).
NoteSheet(kinds, first) ==
    [max_row |-> Len(kinds), max_column |-> 3,
     cells |-> [r \in 1..Len(kinds) |-> NoteRow(kinds[r], Digit[first + r - 1])],
     merged_cells |-> {MergeRange(r, r, 1, 2) : r \in {x \in 1..Len(kinds) : kinds[x] = "merged"}}]

\* The notes are spread over sheets of two rows each.
RECURSIVE NoteSheets(_, _)
NoteSheets(kinds, first) ==
    IF kinds = <<>> THEN <<>>
    ELSE IF Len(kinds) <= 2 THEN <<NoteSheet(kinds, first)>>
         ELSE <<NoteSheet(SubSeq(kinds, 1, 2), first)>>
              \o NoteSheets(SubSeq(kinds, 3, Len(kinds)), first + 2)

ReportFile(names, with_bond, kinds) ==
    ExcelFile(TRUE, <<TableSheet(names, with_bond)>> \o NoteSheets(kinds, 1))

\* A sheet on which the table goes on: bordered rows of the table's width for
\* the names from the second on, without title or header.
ContinuationSheet(names, with_bond) ==
    LET lead(c) == IF with_bond THEN <<c>> ELSE <<>>
    IN  [max_row |-> Len(names) - 1,
         max_column |-> IF with_bond THEN 5 ELSE 4,
         cells |-> [k \in 1..(Len(names) - 1) |->
                      lead(BCell(<<"bond", Digit[k + 1]>>))
                      \o <<Cell(names[k + 1], TRUE), BCell(<<"unit", Digit[k + 1]>>),
                           BCell(<<"dept", Digit[k + 1]>>), BCell(<<"100", Digit[k + 1]>>)>>],
         merged_cells |-> {}]

\* A report whose table fills two sheets, the first name on the first.
SplitReportFile(names, with_bond, kinds) ==
    ExcelFile(TRUE, <<TableSheet(<<names[1]>>, with_bond), ContinuationSheet(names, with_bond)>>
                    \o NoteSheets(kinds, 1))

ExtractDocs ==
    {<<ReportFile(names, with_bond, kinds)>> :
        names \in NameColumns, with_bond \in BOOLEAN,
        kinds \in SeqsUpTo(NoteRowKinds, MaxNoteRows)}
    \cup {<<SplitReportFile(names, with_bond, kinds)>> :
        names \in {n \in NameColumns : Len(n) = 3}, with_bond \in BOOLEAN,
        kinds \in SeqsUpTo(NoteRowKinds, MaxNoteRows)}

\* Line 623 for the group of the extraction runs.
SampleMetadata ==
    <<Item("Year", Text(<<"2020">>)), Item("Region", Text(<<"RegionA">>)),
      Item("DataSource", Text(<<"report.xlsx">>))>>

\* ------------------------------------------------------------ extraction
InitExtract ==
    /\ pc = "ext_open"
    /\ file_group \in ExtractDocs
    /\ all_sheets_in_group = <<>>
    /\ matched_sheets_info = <<>>
    /\ final_tables = <<>>
    /\ last_sheet_index = -1
    /\ dest_sheet = NewWorksheet
    /\ cons_ret = consolidate_tables_from_group(file_group, TRUE)
    /\ ExtractIdle
    /\ PipelineIdle

\* Lines 473-475: the consolidated workbook cannot be opened.
ExtOpenFail ==
    /\ pc = "ext_open"
    /\ enriched_data' = <<>>
    /\ pc' = "ext_return"
    /\ UNCHANGED <<consVars, base_extracted_data, anchor_map>>
    /\ UNCHANGED pipeVars

\* Lines 468-528.
ExtBase ==
    /\ pc = "ext_open"
    /\ base_extracted_data' = base_extract(cons_ret.table)
    /\ IF base_extracted_data' = <<>>
       THEN enriched_data' = <<>> /\ pc' = "ext_return"
       ELSE pc' = "ext_number" /\ UNCHANGED enriched_data
    /\ UNCHANGED <<consVars, anchor_map>>
    /\ UNCHANGED pipeVars

\* Lines 530-537.
ExtNumber ==
    /\ pc = "ext_number"
    /\ base_extracted_data' = number_occurrences(base_extracted_data, <<>>)
    /\ pc' = "ext_anchors"
    /\ UNCHANGED <<consVars, anchor_map, enriched_data>>
    /\ UNCHANGED pipeVars

\* Lines 539-540.
ExtAnchors ==
    /\ pc = "ext_anchors"
    /\ anchor_map' = build_anchor_map(cons_ret.original_sheets, cons_ret.last_sheet_idx + 1)
    /\ pc' = "ext_enrich"
    /\ UNCHANGED <<consVars, base_extracted_data, enriched_data>>
    /\ UNCHANGED pipeVars

\* Lines 541-562.
ExtEnrich ==
    /\ pc = "ext_enrich"
    /\ enriched_data' = [j \in 1..Len(base_extracted_data) |->
                            enrich_record(base_extracted_data[j], anchor_map,
                                          cons_ret.original_sheets, SampleMetadata)]
    /\ pc' = "ext_return"
    /\ UNCHANGED <<consVars, base_extracted_data, anchor_map>>
    /\ UNCHANGED pipeVars

NextExtract == ExtOpenFail \/ ExtBase \/ ExtNumber \/ ExtAnchors \/ ExtEnrich

SpecExtract == InitExtract /\ [][NextExtract]_vars

\* ------------------------------------------------------ the output workbook
DATA_SHEET_NAME == "Panel_Data"
LOG_SHEET_NAME == "processing_log"
LOG_COLUMN == "processed_group_id"

\* The missing value of a frame read back from a sheet.
NaN == [t |-> "nan", s |-> <<>>]
IsMissing(v) == v = None \/ v = NaN

\* df.to_excel(writer, index=False): the header row and the rows; a missing
\* value is written as an empty cell.
to_excel(df) ==
    [header |-> df.columns,
     rows |-> [r \in 1..Len(df.rows) |-> [c \in 1..Len(df.rows[r]) |->
                 IF IsMissing(df.rows[r][c]) THEN None ELSE df.rows[r][c]]]]

\* pd.read_excel: the first row names the columns; an empty cell is NaN.
read_excel(stored) ==
    Frame(stored.header,
          [r \in 1..Len(stored.rows) |-> [c \in 1..Len(stored.rows[r]) |->
              IF stored.rows[r][c] = None THEN NaN ELSE stored.rows[r][c]]])

\* The output file on disk: absent, unreadable as a workbook, or a workbook
\* whose sheets are kept by name.
Absent == [kind |-> "absent", sheets |-> <<>>]
Corrupt == [kind |-> "corrupt", sheets |-> <<>>]
Book(sheets) == [kind |-> "book", sheets |-> sheets]
NoSheet == [header |-> <<>>, rows |-> <<>>]

\* A path as the sequence of its components; str(path) is kept in a cell as
\* a text of the same components.
PathName(path) == path[Len(path)]
ParentName(path) == IF Len(path) >= 2 THEN path[Len(path) - 1] ELSE ""
GrandParentName(path) == IF Len(path) >= 3 THEN path[Len(path) - 2] ELSE ""
Str(s) == Text(<<s>>)

\* Lines 149-159 for the outcomes that return a set.
load_processed_log_from_excel_Empty(file) == {}
load_processed_log_from_excel(file) ==
    IF file.kind = "book" /\ DictHas(file.sheets, LOG_SHEET_NAME)
    THEN LET log_df == read_excel(DictGet(file.sheets, LOG_SHEET_NAME, NoSheet))
         IN  {log_df.rows[r][1].s : r \in {x \in 1..Len(log_df.rows) :
                                              ~IsMissing(log_df.rows[x][1])}}
    ELSE {}

\* Lines 165-178: the frames read from the file before the write.
existing_data(file) ==
    IF file.kind = "book" /\ DictHas(file.sheets, DATA_SHEET_NAME)
    THEN read_excel(DictGet(file.sheets, DATA_SHEET_NAME, NoSheet))
    ELSE EmptyFrame
existing_log(file) ==
    IF file.kind = "book" /\ DictHas(file.sheets, LOG_SHEET_NAME)
    THEN read_excel(DictGet(file.sheets, LOG_SHEET_NAME, NoSheet))
    ELSE Frame(<<LOG_COLUMN>>, <<>>)

\* Line 181.
new_log_entry(group_identifier) == Frame(<<LOG_COLUMN>>, << <<Text(group_identifier)>> >>)

\* Lines 617-623.
group_metadata(group_identifier) ==
    <<Item("Year", Str(ParentName(group_identifier))),
      Item("Region", Str(GrandParentName(group_identifier))),
      Item("DataSource", Str(PathName(group_identifier)))>>

\* Line 188: the exception is reported and the function returns to the loop.
OnAppendException_Propagates == "aborted"
OnAppendException == "loop"

\* ------------------------------------------------------- pipeline inputs
\* The reports of a run: one with two records, anchors and every header, one
\* with a single record and neither anchors nor the bond-name column, one
\* that cannot be read, one without a bordered table and one whose table
\* lacks the core headers.
PipelineDocs ==
    {<<ReportFile(<<Text(<<"Jia">>), Text(<<"Jia", "1">>)>>, TRUE,
                  <<"anchorJia", "val", "addl">>)>>,
     <<ReportFile(<<Text(<<"Yi">>)>>, FALSE, <<>>)>>,
     <<UnreadableFile>>,
     <<ExcelFile(TRUE, <<ShapeTitleNoTable>>)>>,
     <<ExcelFile(TRUE, <<ShapeTitle3>>)>>}

\* The identifying paths of the groups, in sorted order.
GroupPaths ==
    << <<"RegionA", "2020", "a__1.xlsx">>, <<"RegionB", "2021", "b.xlsx">> >>

FileGroup(k, files) == [group_identifier |-> GroupPaths[k], files |-> files]

\* What discover_excel_files can return: up to one group per path.
DiscoveredGroups ==
    UNION {{[k \in 1..n |-> FileGroup(k, f[k])] : f \in [1..n -> PipelineDocs]} :
              n \in 0..Len(GroupPaths)}

\* ------------------------------------------------------------- the pipeline
\* A run of main over the discovered groups, followed by further runs over the
\* same input and the same output file.
CurrentGroup == excel_file_groups[i]
group_identifier == CurrentGroup.group_identifier
GroupIds == {excel_file_groups[k].group_identifier : k \in 1..Len(excel_file_groups)}

RunningPcs == {"start", "loop", "extract", "frame", "append_open", "append_data",
               "append_log", "append_exit"}
EndPcs == {"done", "returned", "aborted", "terminated"}

Init ==
    /\ pc = "start"
    /\ ConsIdle
    /\ ExtractIdle
    /\ run = 1
    /\ i = 1
    /\ excel_file_groups \in DiscoveredGroups
    /\ source_exists \in BOOLEAN
    /\ processed_groups = {}
    /\ output_file = Absent
    /\ new_data_df = EmptyFrame
    /\ combined_data_df = EmptyFrame
    /\ combined_log_df = EmptyFrame
    /\ writer = <<>>
    /\ attempted = {}
    /\ skipped = {}
    /\ committed = {}
    /\ committed_before = {}
    /\ failed = {}
    /\ faulted = FALSE
    /\ file_at_prev_end = Absent
    /\ prev_end = "none"
    /\ FnIdle

\* The end of one iteration of the loop of main: on to the next group.
NextGroup(next_pc) ==
    /\ pc' = next_pc
    /\ i' = i + 1
    /\ cons_ret' = NotReturned
    /\ enriched_data' = <<>>
    /\ new_data_df' = EmptyFrame
    /\ combined_data_df' = EmptyFrame
    /\ combined_log_df' = EmptyFrame
    /\ writer' = <<>>

\* The current group's attempt ends without a commit.
GroupFails(next_pc, fault) ==
    /\ NextGroup(next_pc)
    /\ failed' = failed \cup {group_identifier}
    /\ faulted' = (faulted \/ fault)

frameVars == <<file_group, all_sheets_in_group, matched_sheets_info, final_tables,
               last_sheet_index, dest_sheet, base_extracted_data, anchor_map, fnVars>>
inputVars == <<run, excel_file_groups, source_exists>>
historyVars == <<committed_before, file_at_prev_end, prev_end>>

\* Lines 571-593: the log is loaded, the source folder checked and the groups
\* discovered.
MainStart ==
    /\ pc = "start"
    /\ processed_groups' = load_processed_log_from_excel(output_file)
    /\ pc' = IF ~source_exists \/ excel_file_groups = <<>> THEN "returned" ELSE "loop"
    /\ i' = 1
    /\ UNCHANGED <<frameVars, inputVars, historyVars, cons_ret, enriched_data, output_file,
                   new_data_df, combined_data_df, combined_log_df, writer,
                   attempted, skipped, committed, failed, faulted>>

\* Line 154 raising an exception that line 158 does not catch: the output
\* file is not a readable workbook.
MainStartAbort ==
    /\ pc = "start"
    /\ output_file.kind = "corrupt"
    /\ pc' = "aborted"
    /\ UNCHANGED <<frameVars, inputVars, historyVars, cons_ret, enriched_data, output_file,
                   new_data_df, combined_data_df, combined_log_df, writer,
                   attempted, skipped, committed, failed, faulted, processed_groups, i>>

\* Lines 595-602.
MainSkip ==
    /\ pc = "loop"
    /\ i <= Len(excel_file_groups)
    /\ group_identifier \in processed_groups
    /\ skipped' = skipped \cup {group_identifier}
    /\ i' = i + 1
    /\ UNCHANGED <<pc, frameVars, inputVars, historyVars, cons_ret, enriched_data,
                   output_file, new_data_df, combined_data_df, combined_log_df, writer,
                   attempted, committed, failed, faulted, processed_groups>>

\* Lines 595-613: the group is not in the log and is consolidated.
MainConsolidate ==
    /\ pc = "loop"
    /\ i <= Len(excel_file_groups)
    /\ group_identifier \notin processed_groups
    /\ attempted' = attempted \cup {group_identifier}
    /\ LET ret == consolidate_tables_from_group(CurrentGroup.files, TRUE) IN
       IF ret.ok
       THEN /\ cons_ret' = ret
            /\ pc' = "extract"
            /\ failed' = failed \ {group_identifier}
            /\ UNCHANGED <<i, enriched_data, new_data_df, combined_data_df,
                           combined_log_df, writer, faulted>>
       ELSE GroupFails("loop", FALSE)
    /\ UNCHANGED <<frameVars, inputVars, historyVars, output_file, skipped, committed,
                   processed_groups>>

\* Lines 595-613 with an I/O error at line 263 or at line 319 (caught at
\* lines 265 and 321): consolidate_tables_from_group returns None.
MainConsolidateFault ==
    /\ pc = "loop"
    /\ i <= Len(excel_file_groups)
    /\ group_identifier \notin processed_groups
    /\ attempted' = attempted \cup {group_identifier}
    /\ GroupFails("loop", TRUE)
    /\ UNCHANGED <<frameVars, inputVars, historyVars, output_file, skipped, committed,
                   processed_groups>>

\* Lines 615-628.
MainExtract ==
    /\ pc = "extract"
    /\ enriched_data' = extract_data_with_extended_vars(
                            cons_ret.table, cons_ret.original_sheets,
                            cons_ret.last_sheet_idx, group_metadata(group_identifier))
    /\ pc' = "frame"
    /\ UNCHANGED <<frameVars, inputVars, historyVars, i, cons_ret, output_file, new_data_df,
                   combined_data_df, combined_log_df, writer, attempted, skipped, committed,
                   failed, faulted, processed_groups>>

\* Lines 615-628 with line 469 raising (caught at line 473): no records.
MainExtractFault ==
    /\ pc = "extract"
    /\ enriched_data' = <<>>
    /\ faulted' = TRUE
    /\ pc' = "frame"
    /\ UNCHANGED <<frameVars, inputVars, historyVars, i, cons_ret, output_file, new_data_df,
                   combined_data_df, combined_log_df, writer, attempted, skipped, committed,
                   failed, processed_groups>>

\* Lines 630 and 640-641: nothing was extracted.
MainNoData ==
    /\ pc = "frame"
    /\ enriched_data = <<>>
    /\ GroupFails("loop", FALSE)
    /\ UNCHANGED <<frameVars, inputVars, historyVars, output_file, attempted, skipped,
                   committed, processed_groups>>

\* Lines 630-639 and 164-182: the frame of the group is built and joined to
\* what the output file holds.
AppendRead ==
    /\ pc = "frame"
    /\ enriched_data # <<>>
    /\ output_file.kind # "corrupt"
    /\ new_data_df' = final_frame(enriched_data)
    /\ combined_data_df' = concat(existing_data(output_file), new_data_df')
    /\ combined_log_df' = concat(existing_log(output_file), new_log_entry(group_identifier))
    /\ pc' = "append_open"
    /\ UNCHANGED <<frameVars, inputVars, historyVars, i, cons_ret, enriched_data,
                   output_file, writer, attempted, skipped, committed, failed,
                   faulted, processed_groups>>

\* Lines 630-639 and 164-178 raising (the file cannot be read); lines 188-189.
AppendReadFail ==
    /\ pc = "frame"
    /\ enriched_data # <<>>
    /\ GroupFails(OnAppendException, output_file.kind # "corrupt")
    /\ UNCHANGED <<frameVars, inputVars, historyVars, output_file, attempted, skipped,
                   committed, processed_groups>>

\* Line 184: the writer opens the output file for writing, which empties it.
AppendOpenWriter ==
    /\ pc = "append_open"
    /\ output_file' = Corrupt
    /\ writer' = <<>>
    /\ pc' = "append_data"
    /\ UNCHANGED <<frameVars, inputVars, historyVars, i, cons_ret, enriched_data,
                   new_data_df, combined_data_df, combined_log_df, attempted, skipped,
                   committed, failed, faulted, processed_groups>>

\* Line 184 raising (the file cannot be opened for writing) and lines 188-189.
AppendOpenFail ==
    /\ pc = "append_open"
    /\ GroupFails(OnAppendException, TRUE)
    /\ UNCHANGED <<frameVars, inputVars, historyVars, output_file, attempted, skipped,
                   committed, processed_groups>>

\* Line 185.
AppendWriteData ==
    /\ pc = "append_data"
    /\ writer' = DictSet(writer, DATA_SHEET_NAME, to_excel(combined_data_df))
    /\ pc' = "append_log"
    /\ UNCHANGED <<frameVars, inputVars, historyVars, i, cons_ret, enriched_data,
                   output_file, new_data_df, combined_data_df, combined_log_df, attempted,
                   skipped, committed, failed, faulted, processed_groups>>

\* Line 185 raising: the writer is closed on the way out and has no sheet to
\* save, so the emptied file stays; then lines 188-189.
AppendWriteDataFail ==
    /\ pc = "append_data"
    /\ GroupFails(OnAppendException, TRUE)
    /\ UNCHANGED <<frameVars, inputVars, historyVars, output_file, attempted, skipped,
                   committed, processed_groups>>

\* Line 186.
AppendWriteLog ==
    /\ pc = "append_log"
    /\ writer' = DictSet(writer, LOG_SHEET_NAME, to_excel(combined_log_df))
    /\ pc' = "append_exit"
    /\ UNCHANGED <<frameVars, inputVars, historyVars, i, cons_ret, enriched_data,
                   output_file, new_data_df, combined_data_df, combined_log_df, attempted,
                   skipped, committed, failed, faulted, processed_groups>>

\* Line 186 raising: the writer is closed on the way out and saves the sheets
\* it holds, the records sheet alone; then lines 188-189.
AppendWriteLogFail ==
    /\ pc = "append_log"
    /\ output_file' = Book(writer)
    /\ GroupFails(OnAppendException, TRUE)
    /\ UNCHANGED <<frameVars, inputVars, historyVars, attempted, skipped, committed,
                   processed_groups>>

\* The end of the with block of lines 184-186 (the workbook is saved) and
\* line 187.
AppendClose ==
    /\ pc = "append_exit"
    /\ output_file' = Book(writer)
    /\ committed' = committed \cup {group_identifier}
    /\ NextGroup("loop")
    /\ UNCHANGED <<frameVars, inputVars, historyVars, attempted, skipped, failed, faulted,
                   processed_groups>>

\* The save at the end of the with block raising; then lines 188-189.
AppendCloseFail ==
    /\ pc = "append_exit"
    /\ GroupFails(OnAppendException, TRUE)
    /\ UNCHANGED <<frameVars, inputVars, historyVars, output_file, attempted, skipped,
                   committed, processed_groups>>

\* Lines 643-644.
MainFinish ==
    /\ pc = "loop"
    /\ i > Len(excel_file_groups)
    /\ pc' = "done"
    /\ UNCHANGED <<frameVars, inputVars, historyVars, i, cons_ret, enriched_data,
                   output_file, new_data_df, combined_data_df, combined_log_df, writer,
                   attempted, skipped, committed, failed, faulted, processed_groups>>

\* The process is terminated from outside; what is on disk stays.
Crash ==
    /\ pc \in RunningPcs
    /\ pc' = "terminated"
    /\ faulted' = TRUE
    /\ UNCHANGED <<frameVars, inputVars, historyVars, i, cons_ret, enriched_data,
                   output_file, new_data_df, combined_data_df, combined_log_df, writer,
                   attempted, skipped, committed, failed, processed_groups>>

\* main is started again on the same input and output.
Rerun ==
    /\ pc \in EndPcs
    /\ run < MaxRuns
    /\ run' = run + 1
    /\ pc' = "start"
    /\ i' = 1
    /\ processed_groups' = {}
    /\ cons_ret' = NotReturned
    /\ enriched_data' = <<>>
    /\ new_data_df' = EmptyFrame
    /\ combined_data_df' = EmptyFrame
    /\ combined_log_df' = EmptyFrame
    /\ writer' = <<>>
    /\ attempted' = {}
    /\ skipped' = {}
    /\ committed_before' = committed
    /\ file_at_prev_end' = output_file
    /\ prev_end' = pc
    /\ UNCHANGED <<frameVars, excel_file_groups, source_exists, output_file, committed,
                   failed, faulted>>

NextRun ==
    \/ MainStartAbort \/ MainStart \/ MainSkip \/ MainFinish
    \/ MainConsolidateFault \/ MainConsolidate
    \/ MainExtractFault \/ MainExtract
    \/ MainNoData \/ AppendReadFail \/ AppendRead
    \/ AppendOpenFail \/ AppendOpenWriter
    \/ AppendWriteDataFail \/ AppendWriteData
    \/ AppendWriteLogFail \/ AppendWriteLog
    \/ AppendCloseFail \/ AppendClose
    \/ Rerun

Next == NextRun \/ Crash

Spec == Init /\ [][Next]_vars

\* The runs when nothing terminates the process: a started step is taken.
SpecRun == Init /\ [][NextRun]_vars /\ WF_vars(NextRun)

\* ------------------------------------------- the layout resolver on its own
\* Merge regions of a worksheet of three rows and four columns.
LayoutMergePool ==
    {MergeRange(1, 1, 2, 3), MergeRange(2, 2, 1, 2), MergeRange(2, 3, 3, 4),
     MergeRange(1, 3, 1, 1), MergeRange(3, 3, 1, 3), MergeRange(1, 2, 4, 4),
     MergeRange(1, 1, 1, 4)}

MergesOverlap(m, n) ==
    /\ m.min_row <= n.max_row /\ n.min_row <= m.max_row
    /\ m.min_col <= n.max_col /\ n.min_col <= m.max_col

\* The worksheets a workbook file can hold: no two merge regions overlap.
LayoutSheets ==
    {GridSheet("l", 3, 4, <<0, 0>>, {}, ms) :
        ms \in {S \in SUBSET LayoutMergePool :
                   \A m \in S, n \in S : m # n => ~MergesOverlap(m, n)}}

\* Lines 330-351: the starts of the row, taken from the cache when it holds
\* the row (lines 332-333) and computed otherwise.
cached_logical_starts(sheet, cache, row_num) ==
    IF row_num \in DOMAIN cache THEN cache[row_num]
    ELSE get_logical_starts_for_row(sheet, row_num)

\* Line 350: the cache once the call has returned.
cache_after_call(sheet, cache, row_num) ==
    [r \in DOMAIN cache \cup {row_num} |->
        IF r \in DOMAIN cache THEN cache[r] ELSE get_logical_starts_for_row(sheet, r)]

LayoutReturn(starts, col) == [starts |-> starts, col |-> col]

InitLayout ==
    /\ pc = "layout"
    /\ layout_sheet \in LayoutSheets
    /\ row_logical_starts_cache = <<>>
    /\ layout_call = NoCall
    /\ layout_ret = LayoutReturn(<<>>, 0)
    /\ ConsIdle
    /\ ExtractIdle
    /\ MainIdle
    /\ KimiIdle
    /\ VarsIdle
    /\ MetaIdle
    /\ FfillIdle
    /\ DiscIdle

\* Lines 328-351: a call of get_logical_starts_for_row.
LayoutGetStarts ==
    /\ pc = "layout"
    /\ \E row_num \in 1..layout_sheet.max_row :
          /\ layout_call' = [fn |-> "get_logical_starts_for_row", row_num |-> row_num,
                             logical_index |-> 0]
          /\ layout_ret' = LayoutReturn(
                 cached_logical_starts(layout_sheet, row_logical_starts_cache, row_num), 0)
          /\ row_logical_starts_cache' =
                 cache_after_call(layout_sheet, row_logical_starts_cache, row_num)
    /\ UNCHANGED <<pc, layout_sheet, consVars, extVars, mainVars, ffillVars, discVars, metaVars, varsVars, kimiVars>>

\* Lines 354-359: a call of get_absolute_col_from_logical_index_for_row; 0
\* stands for None.
LayoutGetAbsolute ==
    /\ pc = "layout"
    /\ \E row_num \in 1..layout_sheet.max_row :
       \E logical_index \in 0..(layout_sheet.max_column + 1) :
          LET logical_starts ==
                  cached_logical_starts(layout_sheet, row_logical_starts_cache, row_num)
          IN  /\ layout_call' = [fn |-> "get_absolute_col_from_logical_index_for_row",
                                 row_num |-> row_num, logical_index |-> logical_index]
              /\ layout_ret' = LayoutReturn(logical_starts,
                     IF 1 <= logical_index /\ logical_index <= Len(logical_starts)
                     THEN logical_starts[logical_index] ELSE 0)
              /\ row_logical_starts_cache' =
                     cache_after_call(layout_sheet, row_logical_starts_cache, row_num)
    /\ UNCHANGED <<pc, layout_sheet, consVars, extVars, mainVars, ffillVars, discVars, metaVars, varsVars, kimiVars>>

NextLayout == LayoutGetStarts \/ LayoutGetAbsolute

SpecLayout == InitLayout /\ [][NextLayout]_vars

\* ------------------------------------------------ forward fill on its own
\* The values of a cell of the grid: None, "", " ", and two texts.
GridValues == {None, Text(<<>>), Text(<<" ">>), Text(<<"a">>), Text(<<"b", " ">>)}

\* The rows of a grid: one or two cells (rows of a grid may differ in length).
GridRows ==
    {<<v>> : v \in GridValues}
    \cup {<<v, w>> : v \in GridValues, w \in {None, Text(<<"c">>)}}

\* Line 98: the rows are copied, so the writes of lines 103 and 111 go to the
\* copies and the grid passed in stays as it was.
data_after_call(data) == data

InitFfill ==
    /\ pc = "ffill"
    /\ ffill_data \in SeqsUpTo(GridRows, MaxGridRows)
    /\ filled_data = <<>>
    /\ ConsIdle
    /\ ExtractIdle
    /\ MainIdle
    /\ KimiIdle
    /\ VarsIdle
    /\ MetaIdle
    /\ LayoutIdle
    /\ DiscIdle

\* Line 97: an empty grid.
FfillEmpty ==
    /\ pc = "ffill"
    /\ ffill_data = <<>>
    /\ filled_data' = <<>>
    /\ ffill_data' = data_after_call(ffill_data)
    /\ pc' = "ffill_return"
    /\ UNCHANGED <<consVars, extVars, mainVars, layoutVars, discVars, metaVars, varsVars, kimiVars>>

\* Lines 98-112.
FfillRows ==
    /\ pc = "ffill"
    /\ ffill_data # <<>>
    /\ filled_data' = manual_ffill(ffill_data)
    /\ ffill_data' = data_after_call(ffill_data)
    /\ pc' = "ffill_return"
    /\ UNCHANGED <<consVars, extVars, mainVars, layoutVars, discVars, metaVars, varsVars, kimiVars>>

NextFfill == FfillEmpty \/ FfillRows

SpecFfill == InitFfill /\ [][NextFfill]_vars

\* ------------------------------------------------ group discovery on its own
\* A file name is a sequence of tokens: "kw" is 专项 (FILENAME_KEYWORD), "__"
\* the separator, ".xlsx" and ".XLSX" the extension, the others a name or a
\* run of digits.  The names below are, as strings,
\*   a专项.xlsx  a专项.xlsx__1.xlsx  a专项__1.XLSX  a专项__1.xlsx
\*   a专项__10.xlsx  a专项__1234.xlsx  a专项__2.xlsx  b__1.xlsx
\* and a专项 is the prefix of five of them; NameOrder lists them in string
\* order.
NameOrder ==
    << <<"a", "kw">>,
       <<"a", "kw", ".xlsx">>,
       <<"a", "kw", ".xlsx", "__", "1", ".xlsx">>,
       <<"a", "kw", "__", "1", ".XLSX">>,
       <<"a", "kw", "__", "1", ".xlsx">>,
       <<"a", "kw", "__", "10", ".xlsx">>,
       <<"a", "kw", "__", "1234", ".xlsx">>,
       <<"a", "kw", "__", "2", ".xlsx">>,
       <<"b", "__", "1", ".xlsx">> >>

FileNames == {NameOrder[k] : k \in 2..Len(NameOrder)}

\* The directories of the walk, in string order of the paths below them.
DirOrder == <<"raw_excel", "raw_excel/sub">>

\* os.path.join(dirpath, name)
PathJoin(dirpath, name) == [dir |-> dirpath, name |-> name]

NameRank(name) == CHOOSE k \in 1..Len(NameOrder) : NameOrder[k] = name
DirRank(dirpath) == CHOOSE k \in 1..Len(DirOrder) : DirOrder[k] = dirpath

\* p < q as strings.
PathLess(p, q) ==
    \/ DirRank(p.dir) < DirRank(q.dir)
    \/ p.dir = q.dir /\ NameRank(p.name) < NameRank(q.name)

\* Line 208: filename.lower().endswith('.xlsx') and keyword in filename.
IsEligibleName(filename) ==
    /\ filename # <<>>
    /\ filename[Len(filename)] \in {".xlsx", ".XLSX"}
    /\ \E k \in 1..Len(filename) : filename[k] = "kw"

\* int(number) of a run of one to three digits; -1 for any other token.
PageNumber(tok) ==
    CASE tok = "1" -> 1 [] tok = "2" -> 2 [] tok = "10" -> 10 [] OTHER -> -1

\* Line 203 and line 210: the name is, to its end, a non-empty prefix, "__",
\* one to three digits and the extension (in either case).
split_file_regex_match(filename) ==
    /\ Len(filename) >= 4
    /\ filename[Len(filename)] \in {".xlsx", ".XLSX"}
    /\ PageNumber(filename[Len(filename) - 1]) >= 0
    /\ filename[Len(filename) - 2] = "__"

\* match.groups()
match_groups(filename) ==
    [base_name |-> SubSeq(filename, 1, Len(filename) - 3),
     number |-> PageNumber(filename[Len(filename) - 1])]

\* grouped_files with the value of key set to value.
GroupedSet(grouped, key, value) ==
    [k \in DOMAIN grouped \cup {key} |-> IF k = key THEN value ELSE grouped[k]]

\* Lines 208-218 for one file of the walk.
add_walked_file(grouped, dirpath, filename) ==
    IF ~IsEligibleName(filename) THEN grouped
    ELSE LET full_path == PathJoin(dirpath, filename) IN
         IF split_file_regex_match(filename)
         THEN LET group_key == PathJoin(dirpath, match_groups(filename).base_name)
                  entry == [number |-> match_groups(filename).number, path |-> full_path]
              IN  GroupedSet(grouped, group_key,
                             (IF group_key \in DOMAIN grouped THEN grouped[group_key] ELSE <<>>)
                             \o <<entry>>)
         ELSE GroupedSet(grouped, full_path, <<[number |-> 0, path |-> full_path]>>)

\* sorted(...) of a list of (number, path) tuples without repeated elements.
EntryLess(e, f) == e.number < f.number \/ (e.number = f.number /\ PathLess(e.path, f.path))
sorted_entries(file_list) ==
    LET S == {file_list[k] : k \in 1..Len(file_list)} IN
    [k \in 1..Cardinality(S) |->
        CHOOSE e \in S : Cardinality({f \in S : EntryLess(f, e)}) = k - 1]

\* sorted(grouped_files.keys())
sorted_keys(grouped) ==
    LET S == DOMAIN grouped IN
    [k \in 1..Cardinality(S) |->
        CHOOSE p \in S : Cardinality({q \in S : PathLess(q, p)}) = k - 1]

\* Lines 220-224.
build_final_groups(grouped) ==
    LET keys == sorted_keys(grouped) IN
    [k \in 1..Len(keys) |->
        LET file_list == sorted_entries(grouped[keys[k]])
        IN  [j \in 1..Len(file_list) |-> file_list[j].path]]

WalkedFiles == {PathJoin(DirOrder[d], name) : d \in 1..Len(DirOrder), name \in FileNames}

\* What os.walk can yield: each file once, a directory's files together and
\* the root before the directory below it, in any order of the names.
WalkOrders ==
    {w \in SeqsUpTo(WalkedFiles, MaxWalkFiles) :
        /\ \A j, k \in 1..Len(w) : j # k => w[j] # w[k]
        /\ \A j, k \in 1..Len(w) : j < k => DirRank(w[j].dir) <= DirRank(w[k].dir)}

InitDiscover ==
    /\ pc = "disc_walk"
    /\ walk_files \in WalkOrders
    /\ walk_pos = 1
    /\ grouped_files = <<>>
    /\ final_groups = <<>>
    /\ ConsIdle
    /\ ExtractIdle
    /\ MainIdle
    /\ KimiIdle
    /\ VarsIdle
    /\ MetaIdle
    /\ LayoutIdle
    /\ FfillIdle

\* Lines 206-218: the next file of the walk.
DiscoverFile ==
    /\ pc = "disc_walk"
    /\ walk_pos <= Len(walk_files)
    /\ grouped_files' = add_walked_file(grouped_files, walk_files[walk_pos].dir,
                                        walk_files[walk_pos].name)
    /\ walk_pos' = walk_pos + 1
    /\ UNCHANGED <<pc, walk_files, final_groups>>
    /\ UNCHANGED <<consVars, extVars, mainVars, layoutVars, ffillVars, metaVars, varsVars, kimiVars>>

\* Lines 220-226: the walk is over.
DiscoverReturn ==
    /\ pc = "disc_walk"
    /\ walk_pos > Len(walk_files)
    /\ final_groups' = build_final_groups(grouped_files)
    /\ pc' = "disc_return"
    /\ UNCHANGED <<walk_files, walk_pos, grouped_files>>
    /\ UNCHANGED <<consVars, extVars, mainVars, layoutVars, ffillVars, metaVars, varsVars, kimiVars>>

NextDiscover == DiscoverFile \/ DiscoverReturn

SpecDiscover == InitDiscover /\ [][NextDiscover]_vars

\* ------------------------------------------------- run metadata on its own
\* Lines 19-20: the source folder, by its last two components (BASE_DIR is
\* the working directory, whatever it is).
SOURCE_FOLDER == <<"data", "raw_excel">>

\* Line 621: the value of the except branch.  Path.parent and Path.name raise
\* no IndexError (the parent of a path without one is the path itself and its
\* name is ''), so lines 620-621 are never run.
UNKNOWN == "Unknown"

\* The directories between the source folder and a file, and the file names.
LevelNames == {"RegionA", "RegionB", "2020", "2021"}
ReportNames == {"a__1.xlsx", "b.xlsx", "c.xlsx"}

\* The paths os.walk(SOURCE_FOLDER) yields for files at most MaxDirLevels
\* directories below the source folder.
MetaPaths ==
    {SOURCE_FOLDER \o levels \o <<name>> :
        levels \in SeqsUpTo(LevelNames, MaxDirLevels), name \in ReportNames}

InitMeta ==
    /\ pc = "meta_start"
    /\ meta_path \in MetaPaths
    /\ meta_result = <<>>
    /\ ConsIdle
    /\ ExtractIdle
    /\ MainIdle
    /\ KimiIdle
    /\ VarsIdle
    /\ LayoutIdle
    /\ FfillIdle
    /\ DiscIdle

\* Lines 617-623.
MetaDerive ==
    /\ pc = "meta_start"
    /\ meta_result' = group_metadata(meta_path)
    /\ pc' = "meta_done"
    /\ UNCHANGED <<meta_path, consVars, extVars, mainVars, layoutVars, ffillVars, discVars, varsVars, kimiVars>>

NextMeta == MetaDerive

SpecMeta == InitMeta /\ [][NextMeta]_vars

\* ------------------------------------ the extended-field walk step by step
\* Lines 420, 428 and 456: current_r += 1.
next_row_Skip(r) == r + 2
next_row_Stay(r) == r
next_row(r) == r + 1

\* The rows of the sheets walked: those of the notes and a row whose three
\* columns are one merged cell, so that the row has a single logical column.
WalkRowKinds == NoteRowKinds \cup {"wide"}
WalkDigit ==
    <<"1", "2", "3", "4", "5", "6", "7", "8", "9", "10", "11", "12", "13", "14", "15",
      "16", "17", "18", "19", "20", "21", "22", "23", "24", "25", "26">>
WalkRow(kind, tag) ==
    IF kind = "wide" THEN <<PCell(<<"wide", tag>>), EmptyCell, EmptyCell>>
    ELSE NoteRow(kind, tag)

\* The sheets holding the rows kinds, two rows to a sheet.
WalkSheets(kinds) ==
    [s \in 1..((Len(kinds) + 1) \div 2) |->
        LET rows == SubSeq(kinds, 2 * s - 1, IF 2 * s <= Len(kinds) THEN 2 * s ELSE Len(kinds))
        IN  [max_row |-> Len(rows), max_column |-> 3,
             cells |-> [r \in 1..Len(rows) |-> WalkRow(rows[r], WalkDigit[2 * s - 2 + r])],
             merged_cells |->
                 {MergeRange(r, r, 1, 2) : r \in {x \in 1..Len(rows) : rows[x] = "merged"}}
                 \cup {MergeRange(r, r, 1, 3) : r \in {x \in 1..Len(rows) : rows[x] = "wide"}}]]

\* Short sheet sequences of every make-up, and long ones: an anchor, a value
\* for each field, and the additional field after a number of other rows.
ShortWalkKinds == SeqsUpTo(WalkRowKinds, MaxWalkRows)
LongWalkKinds ==
    {<<"anchorJia">> \o [k \in 1..Len(EXTENDED_VAR_NAMES) |-> "val"]
        \o [k \in 1..tail |-> "anchorYi"] \o <<"addl">> : tail \in 0..MaxTailRows}

\* The locations build_anchor_map can record on the sheets (lines 379-390),
\* and no location.
LocationsOn(sheets) ==
    {Location(s, r, 2) : s \in 0..(Len(sheets) - 1), r \in 1..2} \cup {NoLocation}

InitVars ==
    /\ pc = "vars_field"
    /\ \E kinds \in ShortWalkKinds \cup LongWalkKinds :
          /\ scan_sheets = WalkSheets(kinds)
          /\ anchor_loc \in {l \in LocationsOn(scan_sheets) :
                                l = NoLocation \/ l.r <= scan_sheets[l.s_idx + 1].max_row}
          /\ kinds \in LongWalkKinds => anchor_loc = Location(0, 1, 2)
    /\ var_index = 1
    /\ found_var = FALSE
    /\ current_s_idx = anchor_loc.s_idx
    /\ current_r = anchor_loc.r + 1
    /\ extracted_vars = <<>>
    /\ search_count = 0
    /\ found_additional_var = FALSE
    /\ found_at = <<>>
    /\ ConsIdle
    /\ ExtractIdle
    /\ MainIdle
    /\ KimiIdle
    /\ LayoutIdle
    /\ FfillIdle
    /\ DiscIdle
    /\ MetaIdle

VarsFrame == UNCHANGED <<scan_sheets, anchor_loc, consVars, extVars, mainVars, layoutVars,
                         ffillVars, discVars, metaVars, kimiVars>>

\* Lines 400-401.
VarsNoAnchor ==
    /\ pc = "vars_field"
    /\ anchor_loc = NoLocation
    /\ extracted_vars' = [j \in 1..Len(EXTENDED_VAR_NAMES) |-> Item(EXTENDED_VAR_NAMES[j], None)]
    /\ pc' = "vars_return"
    /\ UNCHANGED <<var_index, found_var, current_s_idx, current_r, search_count,
                   found_additional_var, found_at>>
    /\ VarsFrame

\* The while loop of line 411 runs its body.
InFieldLoop ==
    /\ pc = "vars_field"
    /\ anchor_loc # NoLocation
    /\ ~found_var
    /\ current_s_idx < Len(scan_sheets)

\* Lines 413-416.
VarsRollOver ==
    /\ InFieldLoop
    /\ current_r > scan_sheets[current_s_idx + 1].max_row
    /\ current_s_idx' = current_s_idx + 1
    /\ current_r' = 1
    /\ UNCHANGED <<pc, var_index, found_var, extracted_vars, search_count,
                   found_additional_var, found_at>>
    /\ VarsFrame

\* Lines 418-421: the row has no such logical column.
VarsNoColumn ==
    /\ InFieldLoop
    /\ current_r <= scan_sheets[current_s_idx + 1].max_row
    /\ get_absolute_col_from_logical_index_for_row(
           scan_sheets[current_s_idx + 1], current_r, anchor_loc.value_logical_index) = 0
    /\ current_r' = next_row(current_r)
    /\ UNCHANGED <<pc, var_index, found_var, current_s_idx, extracted_vars, search_count,
                   found_additional_var, found_at>>
    /\ VarsFrame

\* Lines 418-428: the value cell of the row.
VarsRow ==
    /\ InFieldLoop
    /\ current_r <= scan_sheets[current_s_idx + 1].max_row
    /\ LET current_sheet == scan_sheets[current_s_idx + 1]
           absolute_col == get_absolute_col_from_logical_index_for_row(
                               current_sheet, current_r, anchor_loc.value_logical_index)
           value_cell == sheet_cell(current_sheet, current_r, absolute_col)
       IN  /\ absolute_col # 0
           /\ IF has_border(value_cell)
              THEN /\ extracted_vars' = DictSet(extracted_vars, EXTENDED_VAR_NAMES[var_index],
                                                value_cell.value)
                   /\ found_var' = TRUE
                   /\ found_at' = Append(found_at, [s_idx |-> current_s_idx, r |-> current_r])
              ELSE UNCHANGED <<extracted_vars, found_var, found_at>>
    /\ current_r' = next_row(current_r)
    /\ UNCHANGED <<pc, var_index, current_s_idx, search_count, found_additional_var>>
    /\ VarsFrame

\* The for loop of line 409 moves on with the dict vars, to lines 434-436
\* after the last field.
AfterField(vars_so_far) ==
    /\ var_index' = var_index + 1
    /\ found_var' = FALSE
    /\ IF var_index = Len(EXTENDED_VAR_NAMES)
       THEN /\ pc' = "vars_additional"
            /\ extracted_vars' = DictSet(vars_so_far, ADDITIONAL_VAR_NAME, None)
       ELSE /\ pc' = pc
            /\ extracted_vars' = vars_so_far
    /\ UNCHANGED <<current_s_idx, current_r, search_count, found_additional_var, found_at>>
    /\ VarsFrame

\* Line 411 with found set: the field is done.
VarsFieldFound ==
    /\ pc = "vars_field"
    /\ anchor_loc # NoLocation
    /\ found_var
    /\ AfterField(extracted_vars)

\* Lines 411 and 430-431: the sheets are used up.
VarsFieldAbsent ==
    /\ pc = "vars_field"
    /\ anchor_loc # NoLocation
    /\ ~found_var
    /\ current_s_idx >= Len(scan_sheets)
    /\ AfterField(DictSet(extracted_vars, EXTENDED_VAR_NAMES[var_index], None))

\* The for loop of line 438 runs its body past line 439.
InAdditionalLoop ==
    /\ pc = "vars_additional"
    /\ search_count < SEARCH_LIMIT
    /\ ~found_additional_var
    /\ current_s_idx < Len(scan_sheets)

\* Line 438 (the range is used up) and line 439 (break); line 458.
VarsReturn ==
    /\ pc = "vars_additional"
    /\ \/ search_count >= SEARCH_LIMIT
       \/ found_additional_var
       \/ current_s_idx >= Len(scan_sheets)
    /\ pc' = "vars_return"
    /\ UNCHANGED <<var_index, found_var, current_s_idx, current_r, extracted_vars,
                   search_count, found_additional_var, found_at>>
    /\ VarsFrame

\* Lines 441-445.
VarsAddRollOver ==
    /\ InAdditionalLoop
    /\ current_r > scan_sheets[current_s_idx + 1].max_row
    /\ current_s_idx' = current_s_idx + 1
    /\ current_r' = 1
    /\ search_count' = search_count + 1
    /\ UNCHANGED <<pc, var_index, found_var, extracted_vars, found_additional_var, found_at>>
    /\ VarsFrame

\* Lines 447-456.
VarsAddRow ==
    /\ InAdditionalLoop
    /\ current_r <= scan_sheets[current_s_idx + 1].max_row
    /\ LET current_sheet == scan_sheets[current_s_idx + 1]
           key_col == get_absolute_col_from_logical_index_for_row(current_sheet, current_r, 1)
           value_col == get_absolute_col_from_logical_index_for_row(current_sheet, current_r, 2)
           key_cell == sheet_cell(current_sheet, current_r, key_col)
           value_cell == sheet_cell(current_sheet, current_r, value_col)
       IN  IF /\ key_col # 0 /\ value_col # 0
              /\ clean_cell(key_cell.value) = Label(ADDITIONAL_VAR_NAME)
              /\ has_border(value_cell)
           THEN /\ extracted_vars' = DictSet(extracted_vars, ADDITIONAL_VAR_NAME,
                                             value_cell.value)
                /\ found_additional_var' = TRUE
           ELSE UNCHANGED <<extracted_vars, found_additional_var>>
    /\ current_r' = next_row(current_r)
    /\ search_count' = search_count + 1
    /\ UNCHANGED <<pc, var_index, found_var, current_s_idx, found_at>>
    /\ VarsFrame

NextVars ==
    \/ VarsNoAnchor
    \/ VarsRollOver
    \/ VarsNoColumn
    \/ VarsRow
    \/ VarsFieldFound
    \/ VarsFieldAbsent
    \/ VarsReturn
    \/ VarsAddRollOver
    \/ VarsAddRow

SpecVars == InitVars /\ [][NextVars]_vars

\* The function runs on: nothing but its own steps decides whether it goes on.
SpecVarsRun == SpecVars /\ WF_vars(NextVars)

\* ---------------------------------------------------- the Kimi analysis call
\* kimi_api_parser.py, lines 66-72 (RATE_LIMIT_CONFIG), 149 and 164.
MAX_RETRIES == 3
MAX_HISTORY == 20
HISTORY_CAP == 30

\* A message of a conversation: its role, and its place in the history the
\* call started from (0 for a message made during the call).
Message(role, seq) == [role |-> role, seq |-> seq]

\* Lines 141-146; the history of a city the dict lacks is <<>>.
initialize_conversation(history) ==
    IF history = <<>> THEN <<Message("system", 1)>> ELSE history

\* Lines 149-157: what the call leaves in self.conversation_history.
history_after_get(history) ==
    LET msgs == initialize_conversation(history) IN
    IF Len(msgs) > MAX_HISTORY + 1
    THEN <<msgs[1]>> \o SubSeq(msgs, Len(msgs) - MAX_HISTORY + 1, Len(msgs))
    ELSE msgs

\* Lines 160-167.
add_to_conversation(history, message) ==
    LET msgs == Append(initialize_conversation(history), message) IN
    IF Len(msgs) > HISTORY_CAP
    THEN <<msgs[1]>> \o SubSeq(msgs, Len(msgs) - (HISTORY_CAP - 1) + 1, Len(msgs))
    ELSE msgs

\* Lines 185-191 (the wait of line 190 ends).
handle_rate_limit_Always(config, count) == TRUE
handle_rate_limit(config, count) ==
    ~(~config.ENABLE_RETRY \/ count >= config.MAX_RETRIES)

\* A history of n messages: the system message and user and assistant
\* messages in turn.
StoredHistory(n) ==
    [k \in 1..n |-> Message(IF k = 1 THEN "system"
                            ELSE IF k % 2 = 0 THEN "user" ELSE "assistant", k)]

NotYetReturned == [returned |-> FALSE, ok |-> FALSE, valid_files |-> 0]
ReturnNone == [returned |-> TRUE, ok |-> FALSE, valid_files |-> 0]
ReturnResult(n) == [returned |-> TRUE, ok |-> TRUE, valid_files |-> n]

InitKimi ==
    /\ pc = "kimi_loop"
    /\ rate_limit_config \in [ENABLE_RETRY : BOOLEAN, MAX_RETRIES : {MAX_RETRIES}]
    /\ conversation_history \in {StoredHistory(n) : n \in 0..MaxHistory}
    /\ file_ids \in {[k \in 1..n |-> k] : n \in 0..MaxFileIds}
    /\ retry_count = 0
    /\ messages = <<>>
    /\ valid_files = 0
    /\ last_error = "none"
    /\ kimi_ret = NotYetReturned
    /\ attempt_count = 0
    /\ ConsIdle
    /\ ExtractIdle
    /\ MainIdle
    /\ LayoutIdle
    /\ FfillIdle
    /\ DiscIdle
    /\ MetaIdle
    /\ VarsIdle

KimiFrame == UNCHANGED <<rate_limit_config, file_ids, consVars, extVars, mainVars,
                         layoutVars, ffillVars, discVars, metaVars, varsVars>>

\* Lines 231-234: a pass of the while loop begins.  (retry_count never
\* exceeds MAX_RETRIES, so the loop is never left at line 231 and line 275 is
\* not reached.)
KimiAttempt ==
    /\ pc = "kimi_loop"
    /\ retry_count <= rate_limit_config.MAX_RETRIES
    /\ conversation_history' = history_after_get(conversation_history)
    /\ messages' = conversation_history'
    /\ valid_files' = 0
    /\ attempt_count' = attempt_count + 1
    /\ pc' = "kimi_files"
    /\ UNCHANGED <<retry_count, last_error, kimi_ret>>
    /\ KimiFrame

\* Lines 237-246: no file's content could be read.
KimiNoContent ==
    /\ pc = "kimi_files"
    /\ kimi_ret' = ReturnNone
    /\ pc' = "kimi_return"
    /\ UNCHANGED <<conversation_history, retry_count, messages, valid_files, last_error,
                   attempt_count>>
    /\ KimiFrame

\* Lines 237-253: the content of n of the files was read; the prompt and the
\* user message are added.
KimiContent ==
    /\ pc = "kimi_files"
    /\ \E n \in 1..Len(file_ids) :
          /\ valid_files' = n
          /\ messages' = messages \o [k \in 1..(n + 1) |-> Message("system", 0)]
                                  \o <<Message("user", 0)>>
    /\ pc' = "kimi_request"
    /\ UNCHANGED <<conversation_history, retry_count, last_error, kimi_ret, attempt_count>>
    /\ KimiFrame

\* Lines 255-266: the request is answered.
KimiSuccess ==
    /\ pc = "kimi_request"
    /\ conversation_history' =
           add_to_conversation(add_to_conversation(conversation_history,
                                                   messages[Len(messages)]),
                               Message("assistant", 0))
    /\ kimi_ret' = ReturnResult(valid_files)
    /\ pc' = "kimi_return"
    /\ UNCHANGED <<retry_count, messages, valid_files, last_error, attempt_count>>
    /\ KimiFrame

\* Lines 255-260 raising an error whose text names a rate limit; lines
\* 268-274.
KimiRateLimit ==
    /\ pc = "kimi_request"
    /\ last_error' = "rate limit"
    /\ IF handle_rate_limit(rate_limit_config, retry_count)
       THEN /\ retry_count' = retry_count + 1
            /\ pc' = "kimi_loop"
            /\ UNCHANGED kimi_ret
       ELSE /\ kimi_ret' = ReturnNone
            /\ pc' = "kimi_return"
            /\ UNCHANGED retry_count
    /\ UNCHANGED <<conversation_history, messages, valid_files, attempt_count>>
    /\ KimiFrame

\* Lines 255-260 raising any other error; lines 268-274.
KimiOtherError ==
    /\ pc = "kimi_request"
    /\ last_error' = "other"
    /\ kimi_ret' = ReturnNone
    /\ pc' = "kimi_return"
    /\ UNCHANGED <<conversation_history, retry_count, messages, valid_files, attempt_count>>
    /\ KimiFrame

NextKimi ==
    \/ KimiAttempt
    \/ KimiNoContent
    \/ KimiContent
    \/ KimiSuccess
    \/ KimiRateLimit
    \/ KimiOtherError

SpecKimi == InitKimi /\ [][NextKimi]_vars

\* The call runs on: each request is answered or fails, and the wait of line
\* 190 ends.
SpecKimiRun == SpecKimi /\ WF_vars(NextKimi)

\* ------------------------------------------- properties of consolidation
\* The region of a sheet read directly off its bordered cells.
RegionOf(sheet) ==
    LET B == BorderedCells(sheet) IN
    [min_row |-> SetMin({rc[1] : rc \in B}), max_row |-> SetMax({rc[1] : rc \in B}),
     min_col |-> SetMin({rc[2] : rc \in B}), max_col |-> SetMax({rc[2] : rc \in B})]
HasRegion(sheet) == BorderedCells(sheet) # {}
ColumnCount(sheet) == RegionOf(sheet).max_col - RegionOf(sheet).min_col + 1
RowCount(sheet) == RegionOf(sheet).max_row - RegionOf(sheet).min_row + 1
SheetAt(index) == all_sheets_in_group[index + 1]
SelectDone == pc \in {"cons_write", "cons_save"} \/ (pc = "cons_return" /\ cons_ret.ok)

\* C8: the consolidated sheets are consecutive sheet indices; every appended
\* sheet has a border region with the column count of the region appended
\* before it; the sheet right after the run (if any) has no region or another
\* column count; so all consolidated regions have one column count.
C8_ContinuationRule ==
    SelectDone =>
        /\ \A k \in 2..Len(final_tables) :
              /\ final_tables[k].index = final_tables[k - 1].index + 1
              /\ HasRegion(SheetAt(final_tables[k].index))
              /\ ColumnCount(SheetAt(final_tables[k].index))
                     = ColumnCount(SheetAt(final_tables[k - 1].index))
        /\ LET after == final_tables[Len(final_tables)].index + 1 IN
              after < Len(all_sheets_in_group) =>
                  \/ ~HasRegion(SheetAt(after))
                  \/ ColumnCount(SheetAt(after)) # ColumnCount(SheetAt(after - 1))
        /\ \A j, k \in 1..Len(final_tables) :
              ColumnCount(SheetAt(final_tables[j].index))
                  = ColumnCount(SheetAt(final_tables[k].index))
        /\ last_sheet_index = final_tables[Len(final_tables)].index

\* C8 witness: a run of two or more sheets was consolidated and the walk was
\* stopped by a sheet that has a border region of another column count.
C8_Witness ==
    /\ pc = "cons_return" /\ cons_ret.ok
    /\ Len(final_tables) >= 2
    /\ last_sheet_index + 1 < Len(all_sheets_in_group)
    /\ HasRegion(SheetAt(last_sheet_index + 1))
    /\ ColumnCount(SheetAt(last_sheet_index + 1)) # ColumnCount(SheetAt(last_sheet_index))

MatchedIndices == {matched_sheets_info[k].index : k \in 1..Len(matched_sheets_info)}
MatchedWithRegion == {x \in MatchedIndices : HasRegion(SheetAt(x))}
SelectRan == pc \in {"cons_write", "cons_save"}
                \/ (pc = "cons_return" /\ matched_sheets_info # <<>>)

\* C9 as stated: when the first title-matching sheet has no border region, no
\* table is produced.
C9_FirstMatchWithoutRegionAborts ==
    (SelectRan /\ ~HasRegion(SheetAt(matched_sheets_info[1].index)))
        => (final_tables = <<>> /\ ~cons_ret.ok)

\* C9 amended: the table starts at the first title-matching sheet that has a
\* border region (never at a sheet that does not match the title), and
\* consolidation is aborted exactly when no title-matching sheet has one.
C9_StartsAtFirstMatchWithRegion ==
    SelectRan =>
        IF MatchedWithRegion = {}
        THEN final_tables = <<>> /\ pc = "cons_return" /\ ~cons_ret.ok
        ELSE /\ final_tables # <<>>
             /\ final_tables[1].index = SetMin(MatchedWithRegion)

\* C9 witness: the first title-matching sheet has no border region, a later
\* one has, and consolidation has returned.
C9_Witness ==
    /\ pc = "cons_return"
    /\ matched_sheets_info # <<>>
    /\ ~HasRegion(SheetAt(matched_sheets_info[1].index))
    /\ MatchedWithRegion # {}

RECURSIVE RowsBefore(_)
\* The number of rows of the regions before region k of final_tables.
RowsBefore(k) ==
    IF k <= 1 THEN 0
    ELSE RowsBefore(k - 1) + RowCount(SheetAt(final_tables[k - 1].index))

WrittenDone == pc = "cons_save" \/ (pc = "cons_return" /\ cons_ret.ok)

\* C10: region k lies at rows RowsBefore(k) + 1 .. RowsBefore(k) + height and
\* columns 1 .. width, cell for cell in the source's order; nothing else is
\* written; the rows total the sum of the heights; the merges are exactly the
\* wholly contained source merges moved by the region's offset.
C10_VerticalConcatenation ==
    WrittenDone =>
        LET n == Len(final_tables)
            total == RowsBefore(n + 1)
        IN
        /\ \A k \in 1..n :
              LET src == SheetAt(final_tables[k].index)
                  reg == RegionOf(src)
              IN  \A r \in 1..RowCount(src), c \in 1..ColumnCount(src) :
                      /\ <<RowsBefore(k) + r, c>> \in DOMAIN dest_sheet.cells
                      /\ dest_sheet.cells[<<RowsBefore(k) + r, c>>]
                             = src.cells[reg.min_row + r - 1][reg.min_col + c - 1]
        /\ DOMAIN dest_sheet.cells =
              UNION {(RowsBefore(k) + 1 .. RowsBefore(k + 1))
                        \X (1 .. ColumnCount(SheetAt(final_tables[k].index))) : k \in 1..n}
        /\ SavedSheet(dest_sheet).max_row = total
        /\ dest_sheet.merged_cells =
              UNION {
                 LET src == SheetAt(final_tables[k].index)
                     reg == RegionOf(src)
                 IN  {MergeRange(m.min_row - reg.min_row + RowsBefore(k) + 1,
                                 m.max_row - reg.min_row + RowsBefore(k) + 1,
                                 m.min_col - reg.min_col + 1,
                                 m.max_col - reg.min_col + 1) :
                         m \in {x \in src.merged_cells :
                                   /\ reg.min_row <= x.min_row /\ x.max_row <= reg.max_row
                                   /\ reg.min_col <= x.min_col /\ x.max_col <= reg.max_col}}
                 : k \in 1..n}

\* C10 witness: three regions were stacked, one of them taken from a region
\* that does not start at A1, and a merge of a later region was moved down.
C10_Witness ==
    /\ pc = "cons_return" /\ cons_ret.ok
    /\ Len(final_tables) >= 3
    /\ \E k \in 1..Len(final_tables) :
          RegionOf(SheetAt(final_tables[k].index)).min_col > 1
    /\ \E m \in dest_sheet.merged_cells : m.min_row > RowsBefore(2)
    /\ \E k \in 1..Len(final_tables) :
          \E x \in SheetAt(final_tables[k].index).merged_cells :
              x.min_row < RegionOf(SheetAt(final_tables[k].index)).min_row

\* ---------------------------------------------- properties of extraction
RecordName(record) == clean_for_matching(DictGet(record, "ProjectName", None))

\* How many records up to and including the j-th carry the j-th record's
\* normalised name.
OccurrenceOf(records, j) ==
    Cardinality({h \in 1..j : RecordName(records[h]) = RecordName(records[j])})

\* The anchor rows for name in the sheets after the consolidated run, as
\* <<sheet index, row>>, read off the sheets directly.
AnchorRows(name) ==
    {p \in UNION {{<<s, r>> : r \in 1..cons_ret.original_sheets[s + 1].max_row} :
                     s \in 0..(Len(cons_ret.original_sheets) - 1)} :
        /\ p[1] > cons_ret.last_sheet_idx
        /\ LET sheet == cons_ret.original_sheets[p[1] + 1]
               starts == get_logical_starts_for_row(sheet, p[2])
           IN  /\ Len(starts) >= 2
               /\ clean_for_matching(sheet_cell(sheet, p[2], starts[1]).value)
                      = Label("ProjectName")
               /\ clean_for_matching(sheet_cell(sheet, p[2], starts[2]).value) = name}

ScanBefore(p, q) == p[1] < q[1] \/ (p[1] = q[1] /\ p[2] < q[2])

\* The n-th anchor row for name in scan order.
NthAnchorRow(name, n) ==
    CHOOSE p \in AnchorRows(name) :
        Cardinality({q \in AnchorRows(name) : ScanBefore(q, p)}) = n - 1

ExtendedFields == EXTENDED_VAR_NAMES \o <<ADDITIONAL_VAR_NAME>>

\* The extended fields the j-th record is due.
ExpectedExtended(j) ==
    LET name == RecordName(base_extracted_data[j])
        n == OccurrenceOf(base_extracted_data, j)
    IN  IF name # <<>> /\ n <= Cardinality(AnchorRows(name))
        THEN extract_vars_from_anchor(
                 Location(NthAnchorRow(name, n)[1], NthAnchorRow(name, n)[2], 2),
                 cons_ret.original_sheets)
        ELSE <<>>

ExtractReturned == pc = "ext_return" /\ enriched_data # <<>>

\* C7: the N-th record carrying a given normalised name takes its extended
\* fields from the N-th anchor found for that name in scan order, and a record
\* whose name has fewer than N anchors has every extended field empty.
C7_OccurrenceDisambiguation ==
    ExtractReturned =>
        /\ Len(enriched_data) = Len(base_extracted_data)
        /\ \A j \in 1..Len(enriched_data) : \A k \in 1..Len(ExtendedFields) :
               /\ DictHas(enriched_data[j], ExtendedFields[k])
               /\ DictGet(enriched_data[j], ExtendedFields[k], None)
                      = DictGet(ExpectedExtended(j), ExtendedFields[k], None)

\* C7 witness: two records whose names differ only in what normalisation
\* removes, two anchors for the shared name, and different extended fields.
C7_Witness ==
    /\ ExtractReturned
    /\ Len(enriched_data) >= 2
    /\ DictGet(enriched_data[1], "ProjectName", None)
           # DictGet(enriched_data[2], "ProjectName", None)
    /\ RecordName(enriched_data[1]) = RecordName(enriched_data[2])
    /\ Cardinality(AnchorRows(RecordName(enriched_data[1]))) >= 2
    /\ DictGet(enriched_data[1], "ProjectType", None)
           # DictGet(enriched_data[2], "ProjectType", None)

\* ------------------------------------------------ properties of the pipeline
\* The records sheet and the log sheet of the file on disk, read cell by cell.
HasDataSheet(file) == file.kind = "book" /\ DictHas(file.sheets, DATA_SHEET_NAME)
HasLogSheet(file) == file.kind = "book" /\ DictHas(file.sheets, LOG_SHEET_NAME)
DataSheetOf(file) == DictGet(file.sheets, DATA_SHEET_NAME, NoSheet)
LogSheetOf(file) == DictGet(file.sheets, LOG_SHEET_NAME, NoSheet)

\* The log on disk names the group g.
LoggedIn(file, g) ==
    /\ HasLogSheet(file)
    /\ \E r \in 1..Len(LogSheetOf(file).rows) : LogSheetOf(file).rows[r][1] = Text(g)

\* The row of a records sheet comes from the group g.
RowIsOf(sheet, r, g) ==
    LET year == ColumnIndex(sheet.header, "Year")
        region == ColumnIndex(sheet.header, "Region")
        source == ColumnIndex(sheet.header, "DataSource")
    IN  /\ year # 0 /\ region # 0 /\ source # 0
        /\ sheet.rows[r][year] = Str(ParentName(g))
        /\ sheet.rows[r][region] = Str(GrandParentName(g))
        /\ sheet.rows[r][source] = Str(PathName(g))

\* The records table on disk holds records of the group g.
HasRecords(file, g) ==
    /\ HasDataSheet(file)
    /\ \E r \in 1..Len(DataSheetOf(file).rows) : RowIsOf(DataSheetOf(file), r, g)

LoggedGroups(file) == {g \in GroupIds : LoggedIn(file, g)}

\* C1: in every state of the output file, whatever runs, write failures and
\* terminations came before, a group is named in the log exactly when the
\* records table holds its records.
C1_RecordsAndLogCommittedTogether ==
    \A g \in GroupIds : LoggedIn(output_file, g) <=> HasRecords(output_file, g)

\* A run that ended normally after an earlier run that ended normally, with no
\* I/O fault and no termination so far.
SecondRunDone == pc = "done" /\ run > 1 /\ prev_end = "done" /\ ~faulted

C3_RerunReprocessesOnlyUncommitted ==
    (run > 1 /\ prev_end = "terminated" /\ pc \in RunningPcs \ {"start"}) =>
        /\ skipped \subseteq LoggedGroups(file_at_prev_end)
        /\ attempted \cap LoggedGroups(file_at_prev_end) = {}
        /\ attempted \cap committed_before = {}
        /\ attempted \cap skipped = {}

\* C4: a group whose attempt failed has no record in the records table and is
\* not named in the log.
C4_FailedGroupCommitsNothing ==
    \A g \in failed : ~HasRecords(output_file, g) /\ ~LoggedIn(output_file, g)

\* C5: a run that has entered its loop reaches its completion step whatever
\* fails on the way, and at completion every group was skipped or attempted.
C5_FailuresContained ==
    /\ [](pc = "done" => attempted \cup skipped = GroupIds)
    /\ (pc = "loop") ~> (pc = "done")

\* C5 witness: a completed run in which the first group failed on an I/O fault
\* and the second group was attempted and committed.
C5_Witness ==
    /\ pc = "done"
    /\ run = 1
    /\ faulted
    /\ Len(excel_file_groups) = 2
    /\ excel_file_groups[1].group_identifier \in failed
    /\ excel_file_groups[2].group_identifier \in attempted \cap committed

\* The consolidated table of the current group has a header cell with the text.
TableHasHeader(text) ==
    \E r \in 1..cons_ret.table.max_row : \E c \in 1..cons_ret.table.max_column :
        clean_cell(sheet_cell(cons_ret.table, r, c).value) = Label(text)

\* C6: the frame handed to the write has exactly the columns of
\* FINAL_COLUMN_ORDER in that order, each row carrying the record's value for a
\* column or None where the record has none (no such header column, no anchor
\* for the record); the records table on disk has the same columns, one cell
\* per column in every row.
C6_FullSchema ==
    /\ pc = "append_open" =>
         /\ new_data_df.columns = FINAL_COLUMN_ORDER
         /\ Len(new_data_df.rows) = Len(enriched_data)
         /\ \A r \in 1..Len(new_data_df.rows) :
              /\ Len(new_data_df.rows[r]) = Len(FINAL_COLUMN_ORDER)
              /\ \A c \in 1..Len(FINAL_COLUMN_ORDER) :
                   new_data_df.rows[r][c] = DictGet(enriched_data[r], FINAL_COLUMN_ORDER[c], None)
              /\ \A c \in 1..Len(COLS_TO_FIND_BY_HEADER) :
                   ~TableHasHeader(COLS_TO_FIND_BY_HEADER[c]) => new_data_df.rows[r][c] = None
              /\ AnchorRows(RecordName(enriched_data[r])) = {} =>
                   \A k \in 1..Len(ExtendedFields) :
                       new_data_df.rows[r][ColumnIndex(FINAL_COLUMN_ORDER, ExtendedFields[k])]
                           = None
    /\ HasDataSheet(output_file) =>
         /\ DataSheetOf(output_file).header = FINAL_COLUMN_ORDER
         /\ \A r \in 1..Len(DataSheetOf(output_file).rows) :
              Len(DataSheetOf(output_file).rows[r]) = Len(FINAL_COLUMN_ORDER)

\* C6 witness: the records table on disk holds a record without bond name and
\* without extended fields next to a record that has both.
C6_Witness ==
    /\ HasDataSheet(output_file)
    /\ \E r, q \in 1..Len(DataSheetOf(output_file).rows) :
         LET rows == DataSheetOf(output_file).rows
             bond == ColumnIndex(FINAL_COLUMN_ORDER, "BondName")
             type == ColumnIndex(FINAL_COLUMN_ORDER, "ProjectType")
         IN  /\ rows[r][bond] = None /\ rows[r][type] = None
             /\ rows[q][bond] # None /\ rows[q][type] # None

\* ------------------------------------------ properties of the layout resolver
\* The columns of a row that do not lie inside a merge region covering the row
\* which started at an earlier column.
SlotColumns(sheet, row_num) ==
    {c \in 1..sheet.max_column :
        ~\E m \in sheet.merged_cells : InMerge(m, row_num, c) /\ m.min_col < c}

\* The sequence lists exactly the elements of the set, in increasing order.
ListsInOrder(seq, S) ==
    /\ \A k \in 1..(Len(seq) - 1) : seq[k] < seq[k + 1]
    /\ {seq[k] : k \in 1..Len(seq)} = S

\* C11: a call for a row returns the row's slot columns in strictly increasing
\* order; the absolute column of logical index k is the k-th of them, or none
\* when k is outside 1..logical width; the cache holds for every row the slot
\* columns of that very row, so a result is never used for another row.
C11_LogicalColumnMapping ==
    /\ layout_call.fn # "none" =>
          ListsInOrder(layout_ret.starts, SlotColumns(layout_sheet, layout_call.row_num))
    /\ layout_call.fn = "get_absolute_col_from_logical_index_for_row" =>
          LET slots == SlotColumns(layout_sheet, layout_call.row_num)
              k == layout_call.logical_index
          IN  layout_ret.col = IF 1 <= k /\ k <= Cardinality(slots)
                               THEN NthOf(slots, k) ELSE 0
    /\ \A r \in DOMAIN row_logical_starts_cache :
          ListsInOrder(row_logical_starts_cache[r], SlotColumns(layout_sheet, r))

\* C11 witness: row 1 has a merge over columns 2-3 and the call for it, made
\* while the cache held another row with other starts, returned 1, 2, 4.
C11_Witness ==
    /\ MergeRange(1, 1, 2, 3) \in layout_sheet.merged_cells
    /\ layout_call.fn = "get_absolute_col_from_logical_index_for_row"
    /\ layout_call.row_num = 1
    /\ layout_call.logical_index = 3
    /\ layout_ret.starts = <<1, 2, 4>>
    /\ layout_ret.col = 4
    /\ 2 \in DOMAIN row_logical_starts_cache
    /\ row_logical_starts_cache[2] # <<1, 2, 4>>

\* ------------------------------------------------ properties of forward fill
\* The cell of the grid passed in (None where the row is too short).
InputCell(r, c) == IF c <= Len(ffill_data[r]) THEN ffill_data[r][c] ELSE None

\* None, or a text that is empty once its whitespace is removed.
BlankInput(r, c) ==
    InputCell(r, c).t = "none"
        \/ \A k \in 1..Len(InputCell(r, c).s) : InputCell(r, c).s[k] \in WhitespaceTokens

\* The rows above r whose cell in column c is not blank.
NonBlankAbove(r, c) == {q \in 1..(r - 1) : ~BlankInput(q, c)}

GridWidth == SetMax({Len(ffill_data[r]) : r \in 1..Len(ffill_data)} \cup {0})

\* C12: in the returned grid a cell that was not blank is unchanged, a blank
\* cell holds the nearest non-blank cell above it in its column or, when
\* there is none, what it held; the grid passed in is never modified.
C12_ForwardFill ==
    /\ [](pc = "ffill_return" =>
            /\ Len(filled_data) = Len(ffill_data)
            /\ \A r \in 1..Len(filled_data) :
                  /\ Len(filled_data[r]) = GridWidth
                  /\ \A c \in 1..GridWidth :
                        filled_data[r][c] =
                            IF ~BlankInput(r, c) \/ NonBlankAbove(r, c) = {}
                            THEN InputCell(r, c)
                            ELSE InputCell(SetMax(NonBlankAbove(r, c)), c))
    /\ [][ffill_data' = ffill_data]_vars

\* C12 witness: a column whose first cell is blank and stays so, followed by a
\* text and a whitespace-only cell that took the text, next to a column that a
\* short row left without a cell.
C12_Witness ==
    /\ pc = "ffill_return"
    /\ Len(ffill_data) = 3
    /\ ffill_data[1] = <<Text(<<>>), Text(<<"c">>)>>
    /\ ffill_data[2][1] = Text(<<"a">>)
    /\ ffill_data[3] = <<Text(<<" ">>)>>
    /\ filled_data[1][1] = Text(<<>>)
    /\ filled_data[3] = <<Text(<<"a">>), Text(<<"c">>)>>

\* ------------------------------------------------ properties of group discovery
\* The eligible files of the walk.
EligibleFiles ==
    {walk_files[k] : k \in {j \in 1..Len(walk_files) : IsEligibleName(walk_files[j].name)}}

\* The name follows the convention prefix__NN.xlsx.
FollowsConvention(name) ==
    /\ Len(name) >= 4
    /\ name[Len(name) - 2] = "__"
    /\ name[Len(name) - 1] \in {"1", "2", "10"}
PrefixOf(name) == SubSeq(name, 1, Len(name) - 3)
PageOf(name) == PageNumber(name[Len(name) - 1])

\* The groups (by position in final_groups) that hold the file.
GroupsHolding(f) ==
    {g \in 1..Len(final_groups) : \E k \in 1..Len(final_groups[g]) : final_groups[g][k] = f}

\* C13: the groups partition the eligible files; the files of one directory
\* that follow the convention with one prefix form one group in page order;
\* a file that does not follow it is a group of its own.
C13_DiscoveryPartitionsFiles ==
    pc = "disc_return" =>
        /\ \A g \in 1..Len(final_groups) :
              /\ final_groups[g] # <<>>
              /\ \A k \in 1..Len(final_groups[g]) :
                    /\ final_groups[g][k] \in EligibleFiles
                    /\ \A j \in 1..Len(final_groups[g]) :
                          j # k => final_groups[g][j] # final_groups[g][k]
              /\ \A j, k \in 1..Len(final_groups[g]) :
                    j < k => PageOf(final_groups[g][j].name) <= PageOf(final_groups[g][k].name)
        /\ \A f \in EligibleFiles : Cardinality(GroupsHolding(f)) = 1
        /\ \A f, h \in EligibleFiles :
              (FollowsConvention(f.name) /\ FollowsConvention(h.name)) =>
                  (GroupsHolding(f) = GroupsHolding(h)
                      <=> (f.dir = h.dir /\ PrefixOf(f.name) = PrefixOf(h.name)))
        /\ \A f \in EligibleFiles :
              ~FollowsConvention(f.name) =>
                  \A g \in GroupsHolding(f) : final_groups[g] = <<f>>

\* ------------------------------------------------ properties of run metadata
\* The number of directory levels between the source folder and the file.
DirLevels(path) == Len(path) - Len(SOURCE_FOLDER) - 1

\* C14: the period is the name of the file's parent directory and the region
\* that of its grand-parent directory; a level that is missing gives the
\* "unknown" value, and the metadata is produced in every case.
C14_MissingLevelIsUnknown ==
    pc = "meta_done" =>
        /\ DictGet(meta_result, "Year", None) =
              (IF DirLevels(meta_path) >= 1
               THEN Str(meta_path[Len(meta_path) - 1]) ELSE Str(UNKNOWN))
        /\ DictGet(meta_result, "Region", None) =
              (IF DirLevels(meta_path) >= 2
               THEN Str(meta_path[Len(meta_path) - 2]) ELSE Str(UNKNOWN))

\* ------------------------------------------------ properties of the commit
\* The log entries on disk, in order.
LogEntries(file) ==
    IF HasLogSheet(file)
    THEN [r \in 1..Len(LogSheetOf(file).rows) |-> LogSheetOf(file).rows[r][1]]
    ELSE <<>>

\* The frames about to be written hold what is stored, in its order, followed
\* by the group's records and by the group's identifier.
CombinedIsStoredPlusNew ==
    LET old_data == Reindex(existing_data(output_file), combined_data_df.columns).rows
        new_data == Reindex(new_data_df, combined_data_df.columns).rows
    IN  /\ combined_data_df.rows = old_data \o new_data
        /\ combined_log_df.rows =
              existing_log(output_file).rows \o << <<Text(group_identifier)>> >>

\* The step that ends a successful commit writes those frames.
CommitWritesCombined ==
    (pc = "append_exit" /\ committed' # committed) =>
        /\ HasDataSheet(output_file') /\ HasLogSheet(output_file')
        /\ DataSheetOf(output_file') = to_excel(combined_data_df)
        /\ LogSheetOf(output_file') = to_excel(combined_log_df)

\* Lines 184-186 are being run.
WriteInProgress == pc \in {"append_data", "append_log", "append_exit"}

\* C15: a successful commit keeps what was stored, in order, and appends the
\* group's records and one log entry; hence no identifier is in the log twice
\* and the entry of a committed group is never removed (it is in the log
\* whenever no write is in progress).
C15_AppendOnlyCommit ==
    /\ [](pc = "append_open" => CombinedIsStoredPlusNew)
    /\ [][CommitWritesCombined]_vars
    /\ [](\A j, k \in 1..Len(LogEntries(output_file)) :
              j # k => LogEntries(output_file)[j] # LogEntries(output_file)[k])
    /\ [](~WriteInProgress => \A g \in committed : LoggedIn(output_file, g))

\* ------------------------------------------------ properties of the anchor scan
\* The anchor map has been built.
AnchorsBuilt == pc = "ext_enrich" \/ (pc = "ext_return" /\ enriched_data # <<>>)

\* C16: every recorded anchor lies on a sheet after the last sheet of the
\* consolidated table, and each name's locations are in scan order (sheet
\* ascending, then row ascending).
C16_AnchorsAfterTable ==
    AnchorsBuilt =>
        \A name \in DOMAIN anchor_map :
            /\ \A j \in 1..Len(anchor_map[name]) :
                  /\ anchor_map[name][j].s_idx > cons_ret.last_sheet_idx
                  /\ anchor_map[name][j].s_idx < Len(cons_ret.original_sheets)
            /\ \A j, k \in 1..Len(anchor_map[name]) :
                  j < k => ScanBefore(<<anchor_map[name][j].s_idx, anchor_map[name][j].r>>,
                                      <<anchor_map[name][k].s_idx, anchor_map[name][k].r>>)

\* C16 witness: the table took two sheets and a name has anchors on two
\* sheets after them.
C16_Witness ==
    /\ AnchorsBuilt
    /\ cons_ret.last_sheet_idx = 1
    /\ \E name \in DOMAIN anchor_map :
          /\ Len(anchor_map[name]) >= 2
          /\ anchor_map[name][1].s_idx < anchor_map[name][2].s_idx

\* ------------------------------------ properties of the extended-field walk
\* The rows after the anchor, as <<sheet index, row>>.
RowsAfterAnchor ==
    {p \in UNION {{<<s, r>> : r \in 1..scan_sheets[s + 1].max_row} :
                     s \in 0..(Len(scan_sheets) - 1)} :
        ScanBefore(<<anchor_loc.s_idx, anchor_loc.r>>, p)}

\* Those whose cell at the anchor's logical column index has a border.
BorderedAfterAnchor ==
    {p \in RowsAfterAnchor :
        LET sheet == scan_sheets[p[1] + 1]
            starts == get_logical_starts_for_row(sheet, p[2])
        IN  /\ anchor_loc.value_logical_index <= Len(starts)
            /\ sheet.cells[p[2]][starts[anchor_loc.value_logical_index]].border}

\* The n-th of them in the order the rows are visited.
NthBordered(n) ==
    CHOOSE p \in BorderedAfterAnchor :
        Cardinality({q \in BorderedAfterAnchor : ScanBefore(q, p)}) = n - 1

\* The raw value of the cell at the anchor's logical column index of row p.
ValueCellAt(p) ==
    LET sheet == scan_sheets[p[1] + 1]
    IN  sheet.cells[p[2]][get_logical_starts_for_row(sheet, p[2])[anchor_loc.value_logical_index]]

VarsReturned == pc = "vars_return" /\ anchor_loc # NoLocation

\* C17: the i-th field takes the raw value of the i-th bordered cell at the
\* anchor's logical column index met from the row below the anchor on, rows
\* ascending and sheet after sheet; each field's cell lies after that of the
\* field before it; a field for which no cell is left is absent (None).
C17_ExtendedFieldWalk ==
    VarsReturned =>
        /\ \A j \in 1..Len(EXTENDED_VAR_NAMES) :
              /\ DictHas(extracted_vars, EXTENDED_VAR_NAMES[j])
              /\ IF j <= Cardinality(BorderedAfterAnchor)
                 THEN /\ j <= Len(found_at)
                      /\ <<found_at[j].s_idx, found_at[j].r>> = NthBordered(j)
                      /\ DictGet(extracted_vars, EXTENDED_VAR_NAMES[j], NaN)
                             = ValueCellAt(NthBordered(j)).value
                 ELSE /\ j > Len(found_at)
                      /\ DictGet(extracted_vars, EXTENDED_VAR_NAMES[j], NaN) = None
        /\ \A j, k \in 1..Len(found_at) :
              j < k => ScanBefore(<<found_at[j].s_idx, found_at[j].r>>,
                                  <<found_at[k].s_idx, found_at[k].r>>)

\* C17 witness: the row below the anchor has no bordered value and is passed
\* over, the first field is found on the next sheet and the fields after it
\* are absent.
C17_Witness ==
    /\ VarsReturned
    /\ Len(found_at) = 1
    /\ found_at[1].s_idx > anchor_loc.s_idx
    /\ <<anchor_loc.s_idx, anchor_loc.r + 1>> \in RowsAfterAnchor
    /\ DictGet(extracted_vars, EXTENDED_VAR_NAMES[1], None) # None
    /\ DictGet(extracted_vars, EXTENDED_VAR_NAMES[2], NaN) = None

\* ------------------------------------ termination of the extended-field walk
CursorAdvances ==
    ScanBefore(<<current_s_idx, current_r>>, <<current_s_idx', current_r'>>)

\* A pass of the while loop of line 411.
FieldWalkIteration == pc = "vars_field" /\ pc' = "vars_field" /\ var_index' = var_index

\* A pass of the for loop of line 438.
AdditionalIteration == pc = "vars_additional" /\ pc' = "vars_additional"

\* C19: extract_vars_from_anchor returns for every anchor location and sheet
\* sequence; every pass of the field walk moves the cursor strictly forward;
\* the scan for the additional field makes at most SEARCH_LIMIT passes, each
\* looking at one row at most.
C19_WalkTerminates ==
    /\ <>(pc = "vars_return")
    /\ [][FieldWalkIteration => CursorAdvances]_vars
    /\ [][AdditionalIteration => (search_count' = search_count + 1 /\ CursorAdvances)]_vars
    /\ [](search_count <= SEARCH_LIMIT)

\* C19 witness: the scan for the additional field gave up after SEARCH_LIMIT
\* passes with rows left to look at.
C19_Witness ==
    /\ pc = "vars_return"
    /\ Len(found_at) = Len(EXTENDED_VAR_NAMES)
    /\ search_count = SEARCH_LIMIT
    /\ ~found_additional_var
    /\ current_s_idx < Len(scan_sheets)
    /\ DictGet(extracted_vars, ADDITIONAL_VAR_NAME, NaN) = None

\* ------------------------------------------ properties of the table selection
\* The indices of the sheets consolidated.
ConsolidatedIndices == {final_tables[k].index : k \in 1..Len(final_tables)}

\* The last sheet of the continuation run that starts at sheet start: each
\* sheet of the run after the first has a border region with the column count
\* of the sheet before it.
RunEnd(start) ==
    SetMax({e \in start..(Len(all_sheets_in_group) - 1) :
               \A x \in (start + 1)..e :
                   /\ HasRegion(SheetAt(x))
                   /\ HasRegion(SheetAt(x - 1))
                   /\ ColumnCount(SheetAt(x)) = ColumnCount(SheetAt(x - 1))})

\* C18 as stated: the sheets consolidated are the continuation run that
\* starts at the first title-matching sheet, and the last-sheet index is that
\* of the run's last sheet.
C18_RunOfFirstMatch ==
    SelectDone =>
        /\ ConsolidatedIndices =
              matched_sheets_info[1].index .. RunEnd(matched_sheets_info[1].index)
        /\ last_sheet_index = RunEnd(matched_sheets_info[1].index)

\* C18 amended: one run is consolidated, the continuation run that starts at
\* the first title-matching sheet that has a border region; its sheets are
\* taken once each in order, a title-matching sheet outside the run adds
\* nothing, and the last-sheet index returned is that of the run's last sheet.
C18_SingleRunPerGroup ==
    SelectDone =>
        LET start == SetMin(MatchedWithRegion) IN
        /\ Len(final_tables) = RunEnd(start) - start + 1
        /\ \A k \in 1..Len(final_tables) : final_tables[k].index = start + k - 1
        /\ last_sheet_index = RunEnd(start)
        /\ (pc = "cons_return" => cons_ret.last_sheet_idx = RunEnd(start))
        /\ \A x \in MatchedIndices :
              (x < start \/ x > RunEnd(start)) => x \notin ConsolidatedIndices

\* C18 witness: consolidation returned a table, and a title-matching sheet
\* with a border region of its own lies after the run.
C18_Witness ==
    /\ pc = "cons_return" /\ cons_ret.ok
    /\ \E x \in MatchedWithRegion : x > last_sheet_index
    /\ matched_sheets_info[1].index = final_tables[1].index

\* ------------------------------------------- properties of the Kimi analysis
\* The messages of the history made during the call.
NewMessages(history) == SelectSeq(history, LAMBDA msg : msg.seq = 0)

\* The step is a retry: another pass of the while loop is to follow.
IsRetry == retry_count' # retry_count

\* C20: analyze_with_kimi returns, after at most MAX_RETRIES + 1 attempts; it
\* retries only after a rate-limit error, with retries enabled and fewer than
\* MAX_RETRIES retries made; another error, or no readable file content,
\* makes it return None at once; the history gains the user and the
\* assistant message on a successful attempt only.
C20_BoundedRetries ==
    /\ <>(pc = "kimi_return")
    /\ [](attempt_count <= MAX_RETRIES + 1 /\ retry_count <= MAX_RETRIES)
    /\ [][IsRetry => /\ pc = "kimi_request"
                     /\ last_error' = "rate limit"
                     /\ rate_limit_config.ENABLE_RETRY
                     /\ retry_count < MAX_RETRIES
                     /\ retry_count' = retry_count + 1
                     /\ pc' = "kimi_loop"]_vars
    /\ [][(pc = "kimi_request" /\ last_error' = "other")
              => (pc' = "kimi_return" /\ kimi_ret' = ReturnNone)]_vars
    /\ [][(pc = "kimi_files" /\ valid_files' = 0)
              => (pc' = "kimi_return" /\ kimi_ret' = ReturnNone)]_vars
    /\ [][NewMessages(conversation_history') # NewMessages(conversation_history)
              => /\ pc = "kimi_request" /\ pc' = "kimi_return" /\ kimi_ret'.ok
                 /\ NewMessages(conversation_history)  = <<>>
                 /\ NewMessages(conversation_history')
                        = <<Message("user", 0), Message("assistant", 0)>>]_vars
    /\ [](kimi_ret.ok => NewMessages(conversation_history) # <<>>)

\* C20 witness: the call returned a result at its last attempt, after
\* MAX_RETRIES rate-limit errors, and the history holds the two new messages
\* behind the stored ones it kept.
C20_Witness ==
    /\ pc = "kimi_return"
    /\ kimi_ret.ok
    /\ attempt_count = MAX_RETRIES + 1
    /\ retry_count = MAX_RETRIES
    /\ Len(conversation_history) = MAX_HISTORY + 3
    /\ conversation_history[Len(conversation_history)] = Message("assistant", 0)

==============================================================================
